---- MODULE Spec2Model ----
(***************************************************************************)
(* A model of the L-Store storage engine in src/lstore: the page           *)
(* directory, the table's base/tail writers and version walker, the query  *)
(* layer, transactions and the tracker, the background merge, the          *)
(* write-ahead log and the database's open/close/recovery.                 *)
(*                                                                         *)
(* The engine's operations are modelled as operators over a table state    *)
(* `st` (a record holding the page bytes, the page directory's maps, the   *)
(* index, the tracker and the WAL), each returning the state it leaves     *)
(* behind together with its result.  A Python exception is a result with   *)
(* exc = TRUE; the state it carries is the state at the raise, since the   *)
(* query layer catches the exception and nothing is rolled back.           *)
(*                                                                         *)
(* An operator binds the result of a call by passing it to a helper        *)
(* operator (named after the part of the source function it continues), so *)
(* that no call is written down more than once.                            *)
(*                                                                         *)
(* Scaling.  TLC's integers are 32 bits wide, and a merge needs full       *)
(* pages, so three tuning parameters of config.py are scaled down:         *)
(* PAGE_SIZE (4096 -> 16, two records per page), MERGE_INTERVAL (513 -> 2) *)
(* and TAIL_RID_BEGIN (2^63-1 -> 2^30-1).  Of TAIL_RID_BEGIN only the      *)
(* order of the RIDs matters, and it stays odd and far above every base    *)
(* RID.                                                                    *)
(***************************************************************************)
EXTENDS Integers, Sequences, FiniteSets, TLC

VARIABLES
    tbl,     \* the table in memory (merging enabled)
    twin,    \* the same workload on a table with merging disabled (SpecMerge)
    disk,    \* what survives a kill: the flushed pages and the WAL file (SpecDB)
    ref,     \* the crash-free run of the same operations (SpecDB)
    up,      \* whether the process is running (SpecDB)
    drained, \* whether drain_merge has been called (SpecMerge)
    last,    \* the last call of the client and what it returned
    clock,   \* time_ns()
    nops,    \* number of calls so far
    hist,    \* history: key -> the rows the client has written for it
    clean,   \* history: no transaction has aborted and no merge has run
    frame,   \* one bufferpool frame: its readers-writer lock and bytes (SpecLock)
    thr,     \* the threads that read and write the frame (SpecLock)
    pool,    \* the bufferpool and the page files under it (SpecPool)
    pthr,    \* the threads that use the bufferpool (SpecPool)
    cat,     \* the database's table registry and directory tree (SpecCatalog)
    saved,   \* what Database.close wrote for the table (SpecClose)
    given,   \* history: the RIDs handed out, in order (SpecClose)
    trk,     \* the transaction tracker, its lock and its callers (SpecTracker)
    walk,    \* a reader inside Table.get_record_version (SpecWalk)
    queued,  \* history: every tail page appended to the merge queue (SpecQueue)
    txn,     \* the transaction a worker thread is running (SpecQueue)
    other,   \* a second table of the same database (SpecTwo)
    walf,    \* the WAL as a file of bytes, what was logged and recovered (SpecWal)
    rw,      \* a WritePreferringRWLock and the threads that use it (SpecRW)
    mt,      \* a table's merge worker, its updaters and its drain_merge (SpecDrain)
    dbp      \* the bufferpool and the page directories of the database of cat (SpecDrop)

vars == <<tbl, twin, disk, ref, up, drained, last, clock, nops, hist, clean,
          frame, thr, pool, pthr, cat, saved, given, trk, walk, queued, txn, other, walf, rw, mt, dbp>>

\* the variables of the bufferpool, catalog and close/reopen specifications
aside == <<frame, thr, pool, pthr, cat, saved, given, trk, walk, queued, txn, other, walf, rw, mt, dbp>>

(***************************************************************************)
(* Bounds of the model                                                     *)
(***************************************************************************)
MaxOps == 4          \* calls per behaviour of Spec
MaxMergeOps == 7     \* calls and merges per behaviour of SpecMerge
MaxDbOps == 6        \* calls, kills and opens per behaviour of SpecDB
MaxDbCalls == 3      \* calls per behaviour of SpecDB
Keys == {1000, 1001} \* primary keys of Spec; they include base RID values
MergeKeys == {1, 2}  \* primary keys of SpecMerge and SpecDB
InsertVal == 5       \* the second column of every inserted row
UpdateVal == 6       \* the second column written by an update call
TxnVal == 7          \* the second column written by an update in a transaction

(***************************************************************************)
(* config.py                                                               *)
(***************************************************************************)
PAGE_SIZE == 16
DATA_SIZE == 8
INDIRECTION_COLUMN == 0
RID_COLUMN == 1
TIMESTAMP_COLUMN == 2
SCHEMA_ENCODING_COLUMN == 3
BASE_RID_COLUMN == 4
NUM_META_COLS == 5
BASE_RID_BEGIN == 1000
TAIL_RID_BEGIN == 1073741823
MERGE_INTERVAL == 2

\* The table of the model: create_table("t", 2, 0).
num_columns == 2
key == 0
num_raw_cols == num_columns + NUM_META_COLS

None == -1           \* Python's None where an int is expected (values are >= 0)

Cols == 0 .. (num_columns - 1)
RawCols == 0 .. (num_raw_cols - 1)

Min(a, b) == IF a < b THEN a ELSE b
Max(a, b) == IF a > b THEN a ELSE b

\* dict.get(k, d) and dict[k] = v
Get(f, k, d) == IF k \in DOMAIN f THEN f[k] ELSE d
Put(f, k, v) == (k :> v) @@ f

RECURSIVE Pow2(_)
Pow2(n) == IF n = 0 THEN 1 ELSE 2 * Pow2(n - 1)

(***************************************************************************)
(* page.py                                                                 *)
(***************************************************************************)
PageId(c, b, i) == [col |-> c, base |-> b, idx |-> i]
PageLocation(c, b, i, o) == [col |-> c, base |-> b, idx |-> i, off |-> o]
id(loc) == PageId(loc.col, loc.base, loc.idx)

\* bitarray.tobytes() / frombytes() in native (little-endian) bit order: a
\* schema encoding is a sequence of num_columns bits, its bytes one integer.
RECURSIVE bits_value(_, _)
bits_value(bits, i) ==
    IF i > Len(bits) THEN 0 ELSE bits[i] * Pow2(i - 1) + bits_value(bits, i + 1)
tobytes(bits) == bits_value(bits, 1)
frombytes(b) == [i \in 1 .. num_columns |-> (b \div Pow2(i - 1)) % 2]

Zeros == [i \in 1 .. num_columns |-> 0]
Ones == [i \in 1 .. num_columns |-> 1]
BitOr(a, b) == [i \in 1 .. num_columns |-> IF a[i] = 1 \/ b[i] = 1 THEN 1 ELSE 0]

\* DataPage.read / SchemaEncodingPage.read: a page that was never written
\* holds zeros (create_column_file, Bufferpool.fetch past the end of file).
PageRead(pages, loc) ==
    IF loc.col = SCHEMA_ENCODING_COLUMN
    THEN frombytes(Get(pages, loc, 0))
    ELSE Get(pages, loc, 0)

\* DataPage.write / SchemaEncodingPage.write
PageWrite(pages, loc, v) ==
    Put(pages, loc, IF loc.col = SCHEMA_ENCODING_COLUMN THEN tobytes(v) ELSE v)

(***************************************************************************)
(* pagedir.py                                                              *)
(***************************************************************************)
se_recs_per_page == PAGE_SIZE \div ((num_columns + 7) \div 8)
data_recs_per_page == PAGE_SIZE \div DATA_SIZE
con_page_max_recs == Min(se_recs_per_page, data_recs_per_page)

\* PageDirectory.__init__ (with Table.__init__, Index.__init__,
\* TransactionTracker.__init__ and an empty WAL)
NewTable(merging) ==
    [ pages |-> <<>>,
      unused_tp_idx |-> 0,
      unused_bp_idx |-> 0,
      unused_base_rid |-> BASE_RID_BEGIN,
      unused_tail_rid |-> TAIL_RID_BEGIN,
      merge_queue |-> <<>>,
      range_last_bp |-> <<>>,
      con_bp_last_con_tp |-> <<>>,
      con_tp_owner |-> <<>>,
      con_bp_num_resolved |-> <<>>,
      con_tp_num_resolved |-> <<>>,
      num_records |-> <<>>,
      con_bp_num_records |-> <<>>,
      con_tp_num_records |-> <<>>,
      offsets |-> <<>>,
      tps |-> <<>>,
      index |-> (key :> <<>>),
      aborted |-> <<>>,
      wal |-> <<>>,
      allow_merge |-> merging,
      merge_alive |-> FALSE ]

\* Table.notify_merge: start the merge thread unless merging is disabled or
\* a thread is alive.
notify_merge_thread(st) ==
    IF st.allow_merge /\ ~st.merge_alive
    THEN [st EXCEPT !.merge_alive = TRUE]
    ELSE st

is_base_rec(st, rid) == BASE_RID_BEGIN <= rid /\ rid < st.unused_base_rid

\* PageDirectory.get_base_record_location: exc for the ValueError of an
\* invalid base RID and the KeyError of a RID without entry.
get_base_record_location(st, base_rid) ==
    IF ~is_base_rec(st, base_rid)
       \/ base_rid \notin DOMAIN st.tps \/ base_rid \notin DOMAIN st.offsets
    THEN [exc |-> TRUE, tps |-> 0, locs |-> <<>>]
    ELSE [exc |-> FALSE, tps |-> st.tps[base_rid], locs |-> st.offsets[base_rid]]

get_tail_record_location(st, tail_rid) ==
    IF ~(TAIL_RID_BEGIN >= tail_rid /\ tail_rid > st.unused_tail_rid)
       \/ tail_rid \notin DOMAIN st.offsets
    THEN [exc |-> TRUE, locs |-> <<>>]
    ELSE [exc |-> FALSE, locs |-> st.offsets[tail_rid]]

\* PageDirectory.__ensure_range_exists: the second map is keyed by the range
\* id here and by the base page index in __get_tp_idx.
ensure_range_tp(st, range_id) ==
    IF range_id \notin DOMAIN st.con_bp_last_con_tp
    THEN [st EXCEPT !.con_bp_last_con_tp = Put(@, range_id, None)]
    ELSE st

ensure_range_exists(st, range_id) ==
    ensure_range_tp(
        IF range_id \notin DOMAIN st.range_last_bp
        THEN [st EXCEPT !.range_last_bp = Put(@, range_id, st.unused_bp_idx),
                        !.unused_bp_idx = @ + 1]
        ELSE st,
        range_id)

\* PageDirectory.__get_range_bp_idx
get_range_bp_idx(st, range_id) ==
    IF Get(st.con_bp_num_records, st.range_last_bp[range_id], 0) < con_page_max_recs
    THEN [st |-> st, bp_idx |-> st.range_last_bp[range_id]]
    ELSE [st |-> [st EXCEPT !.unused_bp_idx = @ + 1,
                            !.range_last_bp = Put(@, range_id, st.unused_bp_idx)],
          bp_idx |-> st.unused_bp_idx]

\* the largest of the counts __set_num_records is called with for `cols`
most_records(st, is_base, idx, cols) ==
    CHOOSE m \in {Get(st.num_records, PageId(c, is_base, idx), 0) + 1 : c \in cols} :
        \A c \in cols : Get(st.num_records, PageId(c, is_base, idx), 0) + 1 <= m

\* PageDirectory.__set_num_records for the pages of columns `cols` of the
\* conceptual page (is_base, idx): every count to con_page_max_recs when
\* `full`, one more than it is otherwise.  The assertion
\* value <= _con_page_max_recs is the caller's exc.
set_num_records(st, is_base, idx, cols, full) ==
    [st EXCEPT
       !.num_records =
           [p \in DOMAIN st.num_records \cup {PageId(c, is_base, idx) : c \in cols} |->
              IF p \in {PageId(c, is_base, idx) : c \in cols}
              THEN IF full THEN con_page_max_recs ELSE Get(st.num_records, p, 0) + 1
              ELSE st.num_records[p]],
       !.con_bp_num_records =
           IF ~is_base THEN @
           ELSE Put(@, idx,
                    IF full THEN con_page_max_recs
                    ELSE Max(Get(@, idx, 0), most_records(st, is_base, idx, cols))),
       !.con_tp_num_records =
           IF is_base THEN @
           ELSE Put(@, idx,
                    IF full THEN con_page_max_recs
                    ELSE Max(Get(@, idx, 0), most_records(st, is_base, idx, cols)))]

\* the assertion of __set_num_records fails for one of the pages
page_overflow(st, is_base, idx, cols) ==
    \E c \in cols : Get(st.num_records, PageId(c, is_base, idx), 0) + 1 > con_page_max_recs

\* PageDirectory.__alloc_bp_space: one slot in every column of base page bp_idx
alloc_bp_space(st, bp_idx) ==
    [ st |-> set_num_records(st, TRUE, bp_idx, RawCols, FALSE),
      exc |-> page_overflow(st, TRUE, bp_idx, RawCols),
      offsets |-> [i \in 1 .. num_raw_cols |->
                     PageLocation(i - 1, TRUE, bp_idx,
                                  Get(st.num_records, PageId(i - 1, TRUE, bp_idx), 0))] ]

\* PageDirectory.alloc_base_rid
alloc_base_rid_entry(rid, g, a) ==
    IF a.exc
    THEN [st |-> g.st, exc |-> TRUE, rid |-> rid, offsets |-> <<>>]
    ELSE [ st |-> [a.st EXCEPT !.offsets = Put(@, rid, a.offsets),
                               !.tps = Put(@, rid, TAIL_RID_BEGIN + 1)],
           exc |-> FALSE, rid |-> rid, offsets |-> a.offsets ]

alloc_base_rid_space(rid, g) ==
    alloc_base_rid_entry(rid, g, alloc_bp_space(g.st, g.bp_idx))

alloc_base_rid_range(st, rid, range_id) ==
    alloc_base_rid_space(rid, get_range_bp_idx(ensure_range_exists(st, range_id), range_id))

alloc_base_rid(st) ==
    alloc_base_rid_range([st EXCEPT !.unused_base_rid = @ + 1], st.unused_base_rid,
                         (st.unused_base_rid - BASE_RID_BEGIN) \div con_page_max_recs)

\* PageDirectory.__get_tp_idx: exc is the KeyError of a base page index that
\* has no entry in _con_bp_last_con_tp.
get_tp_idx(st, bp_idx) ==
    IF bp_idx \notin DOMAIN st.con_bp_last_con_tp
    THEN [st |-> st, exc |-> TRUE, tp_idx |-> 0]
    ELSE IF st.con_bp_last_con_tp[bp_idx] # None
            /\ Get(st.con_tp_num_records, st.con_bp_last_con_tp[bp_idx], 0) < con_page_max_recs
    THEN [st |-> st, exc |-> FALSE, tp_idx |-> st.con_bp_last_con_tp[bp_idx]]
    ELSE [ st |-> [st EXCEPT !.unused_tp_idx = @ + 1,
                             !.con_bp_last_con_tp = Put(@, bp_idx, st.unused_tp_idx),
                             !.con_tp_owner = Put(@, st.unused_tp_idx, bp_idx)],
           exc |-> FALSE, tp_idx |-> st.unused_tp_idx ]

\* the raw columns a tail record with this schema encoding has a slot in
tail_columns(schema_encoding) ==
    {c \in RawCols : c < NUM_META_COLS \/ schema_encoding[c - NUM_META_COLS + 1] = 1}

\* PageDirectory.__alloc_tp_space: one slot in every metadata column and in
\* the data columns whose schema bit is set.
alloc_tp_space(st, tp_idx, schema_encoding) ==
    [ st |-> set_num_records(st, FALSE, tp_idx, tail_columns(schema_encoding), FALSE),
      exc |-> page_overflow(st, FALSE, tp_idx, tail_columns(schema_encoding)),
      offsets |-> SelectSeq(
          [i \in 1 .. num_raw_cols |->
             PageLocation(i - 1, FALSE, tp_idx,
                          Get(st.num_records, PageId(i - 1, FALSE, tp_idx), 0))],
          LAMBDA l : l.col \in tail_columns(schema_encoding)) ]

\* PageDirectory.alloc_tail_rid
alloc_tail_rid_entry(rid, g, a) ==
    IF a.exc
    THEN [st |-> g.st, exc |-> TRUE, rid |-> rid, offsets |-> <<>>]
    ELSE [ st |-> [a.st EXCEPT !.offsets = Put(@, rid, a.offsets)],
           exc |-> FALSE, rid |-> rid, offsets |-> a.offsets ]

alloc_tail_rid_space(st, rid, g, schema_encoding) ==
    IF g.exc
    THEN [st |-> st, exc |-> TRUE, rid |-> rid, offsets |-> <<>>]
    ELSE alloc_tail_rid_entry(rid, g, alloc_tp_space(g.st, g.tp_idx, schema_encoding))

alloc_tail_rid_range(st, rid, base_rid, schema_encoding) ==
    IF base_rid \notin DOMAIN st.offsets
    THEN [st |-> st, exc |-> TRUE, rid |-> rid, offsets |-> <<>>]
    ELSE alloc_tail_rid_space(st, rid, get_tp_idx(st, st.offsets[base_rid][1].idx),
                              schema_encoding)

alloc_tail_rid_next(st, rid, base_rid, schema_encoding) ==
    alloc_tail_rid_range(
        ensure_range_exists([st EXCEPT !.unused_tail_rid = @ - 1],
                            (base_rid - BASE_RID_BEGIN) \div con_page_max_recs),
        rid, base_rid, schema_encoding)

alloc_tail_rid(st, base_rid, schema_encoding) ==
    alloc_tail_rid_next(
        IF st.unused_tail_rid % MERGE_INTERVAL = MERGE_INTERVAL - 1
        THEN notify_merge_thread(st) ELSE st,
        st.unused_tail_rid, base_rid, schema_encoding)

\* the stability test without its look at the base page
mark_resolved_tail_only(st, tp_idx) ==
    IF Get(st.con_tp_num_resolved, tp_idx, 0) # con_page_max_recs
    THEN st
    ELSE [st EXCEPT !.merge_queue = Append(@, tp_idx)]

\* PageDirectory.__mark_resolved
mark_resolved_tail(st, tp_idx) ==
    IF Get(st.con_bp_num_resolved, st.con_tp_owner[tp_idx], 0) # con_page_max_recs
    THEN st
    ELSE IF Get(st.con_tp_num_resolved, tp_idx, 0) # con_page_max_recs
    THEN st
    ELSE [st EXCEPT !.merge_queue = Append(@, tp_idx)]

mark_resolved(st, rid) ==
    IF st.offsets[rid][1].base
    THEN [st EXCEPT !.con_bp_num_resolved =
                        Put(@, st.offsets[rid][1].idx, Get(@, st.offsets[rid][1].idx, 0) + 1)]
    ELSE mark_resolved_tail(
             [st EXCEPT !.con_tp_num_resolved =
                            Put(@, st.offsets[rid][1].idx, Get(@, st.offsets[rid][1].idx, 0) + 1)],
             st.offsets[rid][1].idx)

\* PageDirectory.notify_resolve
RECURSIVE notify_resolve(_, _)
notify_resolve(st, affected_rids) ==
    IF affected_rids = <<>> THEN st
    ELSE notify_resolve(mark_resolved(st, Head(affected_rids)), Tail(affected_rids))

\* PageDirectory.is_aborted_xact with TransactionTracker.is_aborted
is_aborted_xact(st, timestamp) ==
    IF timestamp = 0 THEN FALSE ELSE Get(st.aborted, timestamp, FALSE) = TRUE

\* PageDirectory.base_rids
base_rids(st) == BASE_RID_BEGIN .. (st.unused_base_rid - 1)

(***************************************************************************)
(* record.py: a Record is its raw columns, [INDIRECTION, RID, TIMESTAMP,   *)
(* SCHEMA_ENCODING, BASE_RID, col_0, ...], and the is_deleted flag.        *)
(***************************************************************************)
Record(raw) == [exc |-> FALSE, raw |-> raw, is_deleted |-> FALSE]
Raised == [exc |-> TRUE, raw |-> <<>>, is_deleted |-> FALSE]

raw_of(rec, c) == rec.raw[c + 1]
columns(rec) == SubSeq(rec.raw, NUM_META_COLS + 1, Len(rec.raw))
SetRaw(raw, c, v) == [i \in 1 .. Len(raw) |-> IF i = c + 1 THEN v ELSE raw[i]]

\* Record.filter_columns, from column i on
RECURSIVE filter_from(_, _, _)
filter_from(cols, projected_column_indices, i) ==
    IF i > Min(Len(cols), Len(projected_column_indices)) THEN <<>>
    ELSE IF projected_column_indices[i] = 1
    THEN <<cols[i]>> \o filter_from(cols, projected_column_indices, i + 1)
    ELSE filter_from(cols, projected_column_indices, i + 1)

filter_columns(cols, projected_column_indices) ==
    filter_from(cols, projected_column_indices, 1)

(***************************************************************************)
(* table.py                                                                *)
(***************************************************************************)
\* The loop "for page_info in page_indx: ... page.write(raw_cols[...])" of
\* add_base_record, add_original_copy and add_tail_record.
write_columns(pages, page_indx, raw_cols) ==
    [l \in DOMAIN pages \cup {page_indx[i] : i \in DOMAIN page_indx} |->
       IF l \in {page_indx[i] : i \in DOMAIN page_indx}
       THEN IF l.col = SCHEMA_ENCODING_COLUMN
            THEN tobytes(raw_cols[l.col + 1]) ELSE raw_cols[l.col + 1]
       ELSE pages[l]]

\* Table.__get_base_record: the raw columns in the order of the locations
read_base_record(st, l) ==
    IF l.exc THEN Raised
    ELSE Record([i \in 1 .. Len(l.locs) |-> PageRead(st.pages, l.locs[i])])

get_base_record(st, rid) == read_base_record(st, get_base_record_location(st, rid))

\* Table.__get_tail_schema_encoding, __get_tail_timestamp and
\* __get_tail_indirection: column c of tail record tid
read_tail_column(st, l, c) ==
    IF l.exc THEN [exc |-> TRUE, val |-> 0]
    ELSE [exc |-> FALSE, val |-> PageRead(st.pages, l.locs[c + 1])]

get_tail_column(st, tid, c) == read_tail_column(st, get_tail_record_location(st, tid), c)

\* The while loop of Table.get_record_version: follow the indirection while
\* an older version is wanted or the tail record's transaction has aborted.
RECURSIVE walk_versions(_, _, _, _, _)
walk_timestamp(st, base_rid, latest_tid, ts, version) ==
    IF ts.exc THEN [exc |-> TRUE, base |-> FALSE, tid |-> 0]
    ELSE walk_versions(st, base_rid, latest_tid, ts.val, version + 1)

walk_indirection(st, base_rid, ind, version) ==
    IF ind.exc THEN [exc |-> TRUE, base |-> FALSE, tid |-> 0]
    ELSE walk_timestamp(st, base_rid, ind.val,
                        get_tail_column(st, ind.val, TIMESTAMP_COLUMN), version)

walk_versions(st, base_rid, latest_tid, latest_timestamp, version) ==
    IF (version < 0 /\ latest_tid # 0) \/ is_aborted_xact(st, latest_timestamp)
    THEN IF is_base_rec(st, latest_tid) \/ latest_tid >= st.tps[base_rid]
         THEN [exc |-> FALSE, base |-> TRUE, tid |-> latest_tid]
         ELSE walk_indirection(st, base_rid,
                               get_tail_column(st, latest_tid, INDIRECTION_COLUMN), version)
    ELSE [exc |-> FALSE, base |-> FALSE, tid |-> latest_tid]

\* The tail of Table.get_record_version: the record read from tail record
\* latest_tid for the columns of the base record's schema encoding (one
\* location popped from the end of the tail's data locations for each set
\* bit) and from the base record for the others.  Its RID and TIMESTAMP
\* columns are left 0.
popped_locations(updated, cols_needed) ==
    {updated[i] :
       i \in (Len(updated) - Cardinality({j \in 1 .. num_columns : cols_needed[j] = 1}) + 1)
             .. Len(updated)}

read_popped(pages, popped, c) ==
    IF \E p \in popped : p.col = c
    THEN PageRead(pages, CHOOSE p \in popped : p.col = c)
    ELSE 0

read_tail_columns(st, base_rid, base_rec, popped) ==
    Record(SetRaw(SetRaw(SetRaw(
        [i \in 1 .. num_raw_cols |->
           IF i - 1 >= NUM_META_COLS
              /\ raw_of(base_rec, SCHEMA_ENCODING_COLUMN)[i - NUM_META_COLS] = 0
           THEN base_rec.raw[i]
           ELSE read_popped(st.pages, popped, i - 1)],
        INDIRECTION_COLUMN, raw_of(base_rec, INDIRECTION_COLUMN)),
        BASE_RID_COLUMN, base_rid),
        SCHEMA_ENCODING_COLUMN, raw_of(base_rec, SCHEMA_ENCODING_COLUMN)))

read_tail_locations(st, base_rid, base_rec, l) ==
    IF l.exc \/ Len(base_rec.raw) < num_raw_cols THEN Raised
    ELSE IF Cardinality({j \in 1 .. num_columns :
                           raw_of(base_rec, SCHEMA_ENCODING_COLUMN)[j] = 1})
            > Len(l.locs) - NUM_META_COLS
    THEN Raised
    ELSE read_tail_columns(st, base_rid, base_rec,
             popped_locations(SubSeq(l.locs, NUM_META_COLS + 1, Len(l.locs)),
                              raw_of(base_rec, SCHEMA_ENCODING_COLUMN)))

read_tail_version(st, base_rid, base_rec, latest_tid) ==
    read_tail_locations(st, base_rid, base_rec, get_tail_record_location(st, latest_tid))

\* Table.get_record_version
version_of_walk(st, base_rid, base_rec, w) ==
    IF w.exc THEN Raised
    ELSE IF w.base \/ w.tid = 0 \/ w.tid = base_rid THEN base_rec
    ELSE read_tail_version(st, base_rid, base_rec, w.tid)

version_of_timestamp(st, base_rid, base_rec, latest_tid, ts, version) ==
    IF ts.exc THEN Raised
    ELSE version_of_walk(st, base_rid, base_rec,
                         walk_versions(st, base_rid, latest_tid, ts.val, version))

version_of_encoding(st, base_rid, base_rec, latest_tid, latest_encoding, version) ==
    IF latest_encoding.exc THEN Raised
    ELSE IF latest_encoding.val = Zeros
    THEN [ exc |-> FALSE,
           raw |-> SetRaw([i \in 1 .. num_raw_cols |-> None], BASE_RID_COLUMN, base_rid),
           is_deleted |-> TRUE ]
    ELSE version_of_timestamp(st, base_rid, base_rec, latest_tid,
                              get_tail_column(st, latest_tid, TIMESTAMP_COLUMN), version)

version_of_base(st, base_rid, b, version) ==
    IF b.exc THEN Raised
    ELSE IF raw_of(b, INDIRECTION_COLUMN) = 0
            \/ raw_of(b, INDIRECTION_COLUMN) = raw_of(b, RID_COLUMN)
            \/ raw_of(b, INDIRECTION_COLUMN) >= st.tps[base_rid]
    THEN Record(SetRaw(b.raw, BASE_RID_COLUMN, base_rid))
    ELSE version_of_encoding(st, base_rid, Record(SetRaw(b.raw, BASE_RID_COLUMN, base_rid)),
             raw_of(b, INDIRECTION_COLUMN),
             get_tail_column(st, raw_of(b, INDIRECTION_COLUMN), SCHEMA_ENCODING_COLUMN),
             version)

get_record_version(st, base_rid, version) ==
    IF version > 0 THEN Raised
    ELSE version_of_base(st, base_rid, get_base_record(st, base_rid), version)

\* Table.get_latest_record
get_latest_record(st, base_rid) == get_record_version(st, base_rid, 0)

\* Table.add_base_record
write_base_record(a, rec_raw) ==
    IF a.exc THEN [st |-> a.st, exc |-> TRUE, rid |-> 0]
    ELSE [ st |-> [a.st EXCEPT !.pages = write_columns(@, a.offsets,
                      SetRaw(SetRaw(SetRaw(SetRaw(rec_raw,
                          BASE_RID_COLUMN, a.rid), RID_COLUMN, a.rid),
                          INDIRECTION_COLUMN, 0), SCHEMA_ENCODING_COLUMN, Zeros))],
           exc |-> FALSE, rid |-> a.rid ]

add_base_record(st, rec_raw) == write_base_record(alloc_base_rid(st), rec_raw)

\* Table.update_base_record
write_base_meta(st, l, indirection, schema_encoding) ==
    IF l.exc THEN [st |-> st, exc |-> TRUE]
    ELSE [ st |-> [st EXCEPT !.pages =
                      PageWrite(PageWrite(@, l.locs[INDIRECTION_COLUMN + 1], indirection),
                                l.locs[SCHEMA_ENCODING_COLUMN + 1], schema_encoding)],
           exc |-> FALSE ]

update_base_record(st, base_rid, indirection, schema_encoding) ==
    write_base_meta(st, get_base_record_location(st, base_rid), indirection, schema_encoding)

\* Table.add_original_copy: the base record copied into a tail record with
\* an all-ones schema encoding; the base record then points at the copy and
\* its schema encoding is reset.
write_original_copy(a, rec) ==
    IF a.exc THEN [st |-> a.st, exc |-> TRUE]
    ELSE update_base_record(
             [a.st EXCEPT !.pages = write_columns(@, a.offsets,
                 SetRaw(SetRaw(SetRaw(rec.raw,
                     INDIRECTION_COLUMN, raw_of(rec, BASE_RID_COLUMN)), RID_COLUMN, a.rid),
                     SCHEMA_ENCODING_COLUMN, Ones))],
             raw_of(rec, BASE_RID_COLUMN), a.rid, Zeros)

add_original_copy(st, rec) ==
    IF raw_of(rec, BASE_RID_COLUMN) = 0 THEN [st |-> st, exc |-> FALSE]
    ELSE write_original_copy(alloc_tail_rid(st, raw_of(rec, RID_COLUMN), Ones), rec)

\* Table.add_tail_record; rec_raw carries base_rid, timestamp and the new
\* columns (None where the update gives none).  tid = 0 is "return False".
tail_failed(st) == [st |-> st, exc |-> TRUE, tid |-> 0]

\* schema_encoding | base_rec.schema_encoding
cumulative_schema(rec_raw, base_rec) ==
    BitOr([i \in 1 .. num_columns |-> IF rec_raw[NUM_META_COLS + i] # None THEN 1 ELSE 0],
          raw_of(base_rec, SCHEMA_ENCODING_COLUMN))

\* new_cols: the given value, or the latest one for a column that has none
\* and is set in the base record's schema encoding
tail_new_cols(rec_raw, latest_rec, base_rec) ==
    [i \in 1 .. num_columns |->
       IF raw_of(base_rec, SCHEMA_ENCODING_COLUMN)[i] = 1 /\ rec_raw[NUM_META_COLS + i] = None
       THEN columns(latest_rec)[i] ELSE rec_raw[NUM_META_COLS + i]]

tail_raw_cols(rec_raw, latest_rec, base_rec, new_tid) ==
    SetRaw(SetRaw(SetRaw(
        SubSeq(rec_raw, 1, NUM_META_COLS) \o tail_new_cols(rec_raw, latest_rec, base_rec),
        RID_COLUMN, new_tid),
        INDIRECTION_COLUMN,
        IF latest_rec.raw[RID_COLUMN + 1] = None THEN 0 ELSE latest_rec.raw[RID_COLUMN + 1]),
        SCHEMA_ENCODING_COLUMN, cumulative_schema(rec_raw, base_rec))

tail_linked(u, new_tid) ==
    IF u.exc THEN tail_failed(u.st) ELSE [st |-> u.st, exc |-> FALSE, tid |-> new_tid]

tail_written(rec_raw, latest_rec, base_rec, a) ==
    IF a.exc THEN tail_failed(a.st)
    ELSE tail_linked(
             update_base_record(
                 [a.st EXCEPT !.pages = write_columns(@, a.offsets,
                     tail_raw_cols(rec_raw, latest_rec, base_rec, a.rid))],
                 rec_raw[BASE_RID_COLUMN + 1], a.rid, cumulative_schema(rec_raw, base_rec)),
             a.rid)

tail_of_base(st, rec_raw, latest_rec, base_rec) ==
    IF base_rec.exc THEN tail_failed(st)
    ELSE tail_written(rec_raw, latest_rec, base_rec,
             alloc_tail_rid(st, raw_of(base_rec, RID_COLUMN),
                            cumulative_schema(rec_raw, base_rec)))

tail_of_latest(st, rec_raw, latest_rec) ==
    IF latest_rec.exc THEN tail_failed(st)
    ELSE tail_of_base(st, rec_raw, latest_rec,
                      get_base_record(st, rec_raw[BASE_RID_COLUMN + 1]))

tail_of_copy(oc, rec_raw) ==
    IF oc.exc THEN tail_failed(oc.st)
    ELSE tail_of_latest(oc.st, rec_raw,
                        get_latest_record(oc.st, rec_raw[BASE_RID_COLUMN + 1]))

tail_first(st, rec_raw, latest_rec) ==
    IF latest_rec.exc THEN tail_failed(st)
    ELSE IF latest_rec.raw[RID_COLUMN + 1] = rec_raw[BASE_RID_COLUMN + 1]
    THEN tail_of_copy(
             add_original_copy(st, get_base_record(st, rec_raw[BASE_RID_COLUMN + 1])),
             rec_raw)
    ELSE tail_of_latest(st, rec_raw, latest_rec)

add_tail_record(st, rec_raw) ==
    IF rec_raw[BASE_RID_COLUMN + 1] = 0 THEN [st |-> st, exc |-> FALSE, tid |-> 0]
    ELSE tail_first(st, rec_raw, get_latest_record(st, rec_raw[BASE_RID_COLUMN + 1]))

\* Table.delete_record: the delete indicator is built with every column 0
delete_record(st, base_rid, timestamp) ==
    add_tail_record(st,
        SetRaw(SetRaw(SetRaw([i \in 1 .. num_raw_cols |-> 0],
            BASE_RID_COLUMN, base_rid), SCHEMA_ENCODING_COLUMN, Zeros),
            TIMESTAMP_COLUMN, timestamp))

\* Table.records(version): the live records in base RID order; exc when
\* get_record_version raises for one of them.
records_found(rec, rest) ==
    IF rec.exc \/ rest.exc THEN [exc |-> TRUE, recs |-> <<>>]
    ELSE IF ~rec.is_deleted /\ raw_of(rec, BASE_RID_COLUMN) # 0
    THEN [exc |-> FALSE, recs |-> <<rec>> \o rest.recs]
    ELSE rest

RECURSIVE records_from(_, _, _)
records_from(st, version, rid) ==
    IF rid >= st.unused_base_rid THEN [exc |-> FALSE, recs |-> <<>>]
    ELSE records_found(get_record_version(st, rid, version),
                       records_from(st, version, rid + 1))

records(st, version) == records_from(st, version, BASE_RID_BEGIN)

(***************************************************************************)
(* index.py: st.index maps each indexed column to its SortedDict, value to *)
(* set of RIDs.  The key column's index is the UniqueIndex.                *)
(***************************************************************************)
is_unique(col) == col = key

Least(S) == CHOOSE x \in S : \A y \in S : x <= y

\* list(SortedSet): the RIDs in increasing order
RECURSIVE SortedList(_)
SortedList(S) ==
    IF S = {} THEN <<>> ELSE <<Least(S)>> \o SortedList(S \ {Least(S)})

\* Index.locate / RangedIndex.locate
locate(st, column, value) == SortedList(Get(st.index[column], value, {}))

\* RangedIndex.locate_range over the values `vals` of the range
RECURSIVE locate_values(_, _, _)
locate_values(st, column, vals) ==
    IF vals = {} THEN <<>>
    ELSE SortedList(st.index[column][Least(vals)])
         \o locate_values(st, column, vals \ {Least(vals)})

locate_range(st, begin, end, column) ==
    locate_values(st, column, {v \in DOMAIN st.index[column] : begin <= v /\ v <= end})

\* RangedIndex.add; exc is UniqueKeyViolationError
index_add(index, col, value, rid) ==
    IF is_unique(col) /\ value \in DOMAIN index[col]
    THEN [index |-> index, exc |-> TRUE]
    ELSE [ index |-> [index EXCEPT ![col] = Put(@, value, Get(@, value, {}) \cup {rid})],
           exc |-> FALSE ]

\* RangedIndex.remove; rid = None removes every RID of the value; exc is
\* the KeyError of SortedSet.remove
index_remove(index, col, value, rid) ==
    IF value \notin DOMAIN index[col]
    THEN [index |-> index, exc |-> FALSE]
    ELSE IF is_unique(col) \/ rid = None
    THEN [ index |-> [index EXCEPT ![col] =
                        [v \in DOMAIN @ \ {value} |-> @[v]]],
           exc |-> FALSE ]
    ELSE IF rid \notin index[col][value]
    THEN [index |-> index, exc |-> TRUE]
    ELSE [ index |-> [index EXCEPT ![col][value] = @ \ {rid}], exc |-> FALSE ]

(***************************************************************************)
(* transaction_tracker.py, transaction.py, wal.py                          *)
(***************************************************************************)
\* Transaction.commit (is_abort = FALSE) and Transaction.abort (TRUE) of a
\* transaction that has queries: TransactionTracker.mark_committed or
\* mark_aborted, then PageDirectory.notify_resolve.  ok = FALSE is the
\* ValueError of a timestamp the tracker already holds, which both swallow.
resolve(st, start_time, affected_rids, is_abort) ==
    IF start_time \in DOMAIN st.aborted
    THEN [st |-> st, ok |-> FALSE]
    ELSE [ st |-> notify_resolve([st EXCEPT !.aborted = Put(@, start_time, is_abort)],
                                 affected_rids),
           ok |-> TRUE ]

commit(st, start_time, affected_rids) == resolve(st, start_time, affected_rids, FALSE)
abort(st, start_time, affected_rids) == resolve(st, start_time, affected_rids, TRUE)

\* WriteAheadLog.log: the transaction's start time and mutating queries,
\* appended to the log file and fsynced
log(st, start_time, queries) ==
    [st EXCEPT !.wal = Append(@, [start_time |-> start_time, queries |-> queries])]

\* The "if xact is None" tail of the mutating queries: the query wrapped in
\* a transaction of its own, committed, then logged.
implicit_commit(st, timestamp, affected_rids, q) ==
    log(commit(st, timestamp, affected_rids).st, timestamp, <<q>>)

(***************************************************************************)
(* query.py.  A mutating query takes xact, the start time of the           *)
(* transaction it runs in or None, and `now`, the value of time_ns(); it   *)
(* returns the state it leaves, its result, and the RIDs it appends to     *)
(* xact.affected_rids.  res = FALSE covers "return False" and the          *)
(* exceptions the public wrappers catch.                                   *)
(***************************************************************************)
StoredQuery(type, pk, cols) == [type |-> type, pk |-> pk, cols |-> cols]

QFalse(st) == [st |-> st, res |-> FALSE, rids |-> <<>>]

\* xact.start_time if xact is not None else time.time_ns()
start_time_of(xact, now) == IF xact # None THEN xact ELSE now

\* The records Query.__select_impl collects before projecting them: by the
\* index, Table.get_latest_record of each RID located ...
latest_records(st, rids) == [i \in DOMAIN rids |-> get_latest_record(st, rids[i])]

select_located(recs) ==
    IF \E i \in DOMAIN recs : recs[i].exc
    THEN [failed |-> TRUE, recs |-> <<>>]
    ELSE [failed |-> FALSE, recs |-> recs]

\* ... and by the linear scan of Table.records(version), the records whose
\* column search_key_index is the search key
select_scanned(r, search_key, search_key_index) ==
    IF r.exc THEN [failed |-> TRUE, recs |-> <<>>]
    ELSE [ failed |-> FALSE,
           recs |-> SelectSeq(r.recs,
               LAMBDA rec : columns(rec)[search_key_index + 1] = search_key) ]

select_records(st, search_key, search_key_index) ==
    IF search_key_index \notin DOMAIN st.index
    THEN select_scanned(records(st, 0), search_key, search_key_index)
    ELSE select_located(latest_records(st, locate(st, search_key_index, search_key)))

\* Query.select: failed is the result False, rows the columns of the
\* records returned
Project(r, projected_column_indices) ==
    [ failed |-> r.failed,
      rows |-> [i \in DOMAIN r.recs |->
                  filter_columns(columns(r.recs[i]), projected_column_indices)] ]

select(st, search_key, search_key_index, projected_column_indices) ==
    Project(select_records(st, search_key, search_key_index), projected_column_indices)

\* Query.select_version
select_version(st, search_key, search_key_index, projected_column_indices, relative_version) ==
    IF relative_version = 0
    THEN select(st, search_key, search_key_index, projected_column_indices)
    ELSE Project(select_scanned(records(st, relative_version), search_key, search_key_index),
                 projected_column_indices)

\* Query.sum (the key column always has an index)
RECURSIVE sum_from(_, _, _)
sum_from(recs, aggregate_column_index, i) ==
    IF i > Len(recs) THEN 0
    ELSE columns(recs[i])[aggregate_column_index + 1]
         + sum_from(recs, aggregate_column_index, i + 1)

sum_located(recs, aggregate_column_index) ==
    IF Len(recs) = 0 \/ \E i \in DOMAIN recs : recs[i].exc \/ recs[i].is_deleted
    THEN [failed |-> TRUE, total |-> 0]
    ELSE [failed |-> FALSE, total |-> sum_from(recs, aggregate_column_index, 1)]

sum(st, start_range, end_range, aggregate_column_index) ==
    IF aggregate_column_index \notin Cols THEN [failed |-> TRUE, total |-> 0]
    ELSE sum_located(latest_records(st, locate_range(st, start_range, end_range, key)),
                     aggregate_column_index)

\* Query.__insert_impl: the index loop, one index.add per indexed column
RECURSIVE insert_index(_, _, _, _)
insert_index_added(a, cols, base_rid, col_idx) ==
    IF a.exc THEN a ELSE insert_index(a.index, cols, base_rid, col_idx + 1)

insert_index(index, cols, base_rid, col_idx) ==
    IF col_idx >= Len(cols) THEN [index |-> index, exc |-> FALSE]
    ELSE IF col_idx \notin DOMAIN index
    THEN insert_index(index, cols, base_rid, col_idx + 1)
    ELSE insert_index_added(index_add(index, col_idx, cols[col_idx + 1], base_rid),
                            cols, base_rid, col_idx)

\* Query.__insert_impl
insert_indexed(b, ix, cols, xact, timestamp) ==
    IF ix.exc THEN QFalse([b.st EXCEPT !.index = ix.index])
    ELSE IF xact = None
    THEN [ st |-> implicit_commit([b.st EXCEPT !.index = ix.index], timestamp, <<b.rid>>,
                                  StoredQuery("insert", cols[key + 1], cols)),
           res |-> TRUE, rids |-> <<>> ]
    ELSE [st |-> [b.st EXCEPT !.index = ix.index], res |-> TRUE, rids |-> <<b.rid>>]

insert_based(b, cols, xact, timestamp) ==
    IF b.exc THEN QFalse(b.st)
    ELSE insert_indexed(b, insert_index(b.st.index, cols, b.rid, 0), cols, xact, timestamp)

insert(st, cols, xact, now) ==
    IF Len(cols) # num_columns THEN QFalse(st)
    ELSE IF Len(locate(st, key, cols[key + 1])) > 0 THEN QFalse(st)
    ELSE insert_based(
             add_base_record(st, SetRaw([i \in 1 .. NUM_META_COLS |-> 0] \o cols,
                                        TIMESTAMP_COLUMN, start_time_of(xact, now))),
             cols, xact, start_time_of(xact, now))

\* Query.__update_impl: the index loop, index.remove of the original value
\* then index.add of the new one for each indexed column that changes
RECURSIVE update_index(_, _, _, _, _)
update_index_added(a, original, cols, base_rid, col) ==
    IF a.exc THEN a ELSE update_index(a.index, original, cols, base_rid, col + 1)

update_index_removed(r, original, cols, base_rid, col) ==
    IF r.exc THEN r
    ELSE update_index_added(index_add(r.index, col, cols[col + 1], base_rid),
                            original, cols, base_rid, col)

update_index(index, original, cols, base_rid, col) ==
    IF col >= Min(Len(original), Len(cols)) THEN [index |-> index, exc |-> FALSE]
    ELSE IF col \notin DOMAIN index \/ cols[col + 1] = None
            \/ original[col + 1] = cols[col + 1]
    THEN update_index(index, original, cols, base_rid, col + 1)
    ELSE update_index_removed(index_remove(index, col, original[col + 1], base_rid),
                              original, cols, base_rid, col)

\* Query.__update_impl
update_indexed(t, ix, primary_key, cols, xact, timestamp) ==
    IF ix.exc THEN QFalse([t.st EXCEPT !.index = ix.index])
    ELSE IF xact = None
    THEN [ st |-> implicit_commit([t.st EXCEPT !.index = ix.index], timestamp, <<t.tid>>,
                                  StoredQuery("update", primary_key, cols)),
           res |-> TRUE, rids |-> <<>> ]
    ELSE [st |-> [t.st EXCEPT !.index = ix.index], res |-> TRUE, rids |-> <<t.tid>>]

update_tailed(t, base_rid, original, primary_key, cols, xact, timestamp) ==
    IF t.exc \/ t.tid = 0 THEN QFalse(t.st)
    ELSE update_indexed(t, update_index(t.st.index, original, cols, base_rid, 0),
                        primary_key, cols, xact, timestamp)

update_selected(st, base_rid, original_rec, primary_key, cols, xact, timestamp) ==
    IF original_rec.failed \/ Len(original_rec.recs) = 0 \/ Len(cols) # num_columns
    THEN QFalse(st)
    ELSE update_tailed(
             add_tail_record(st,
                 SetRaw(SetRaw([i \in 1 .. NUM_META_COLS |-> 0] \o cols,
                     BASE_RID_COLUMN, base_rid), TIMESTAMP_COLUMN, timestamp)),
             base_rid, columns(original_rec.recs[1]), primary_key, cols, xact, timestamp)

update(st, primary_key, cols, xact, now) ==
    IF Len(locate(st, key, primary_key)) # 1 THEN QFalse(st)
    ELSE IF \A i \in DOMAIN cols : cols[i] = None
    THEN [st |-> st, res |-> TRUE, rids |-> <<>>]
    ELSE update_selected(st, locate(st, key, primary_key)[1],
                         select_records(st, primary_key, key),
                         primary_key, cols, xact, start_time_of(xact, now))

\* Query.__delete_impl: the index loop, index.remove(rec.columns[col],
\* rec.base_rid) for each indexed column
RECURSIVE delete_index(_, _, _, _)
delete_index_removed(r, rec_columns, base_rid, col) ==
    IF r.exc THEN r ELSE delete_index(r.index, rec_columns, base_rid, col + 1)

delete_index(index, rec_columns, base_rid, col) ==
    IF col >= num_columns THEN [index |-> index, exc |-> FALSE]
    ELSE IF col \notin DOMAIN index
    THEN delete_index(index, rec_columns, base_rid, col + 1)
    ELSE delete_index_removed(index_remove(index, col, rec_columns[col + 1], base_rid),
                              rec_columns, base_rid, col)

\* Query.__delete_impl.  `key` in the source is key_lookup[0], the base RID
\* of the record (key_ here); it is then used as the search key of the
\* select and as the value removed from the key index.
delete_indexed(t, ix, primary_key, xact, timestamp) ==
    IF ix.exc THEN QFalse([t.st EXCEPT !.index = ix.index])
    ELSE IF xact = None
    THEN [ st |-> implicit_commit([t.st EXCEPT !.index = ix.index], timestamp, <<t.tid>>,
                                  StoredQuery("delete", primary_key, <<>>)),
           res |-> TRUE, rids |-> <<>> ]
    ELSE [st |-> [t.st EXCEPT !.index = ix.index], res |-> TRUE, rids |-> <<t.tid>>]

delete_tailed(t, key_, rec, primary_key, xact, timestamp) ==
    IF t.exc \/ t.tid = 0 THEN QFalse(t.st)
    ELSE delete_indexed(t,
             delete_index(index_remove(t.st.index, key, key_, None).index,
                          columns(rec), raw_of(rec, BASE_RID_COLUMN), 0),
             primary_key, xact, timestamp)

delete_selected(st, key_, rec, primary_key, xact, timestamp) ==
    IF rec.failed \/ Len(rec.recs) = 0 THEN QFalse(st)
    ELSE delete_tailed(delete_record(st, key_, timestamp), key_, rec.recs[1],
                       primary_key, xact, timestamp)

delete(st, primary_key, xact, now) ==
    IF Len(locate(st, key, primary_key)) # 1 THEN QFalse(st)
    ELSE delete_selected(st, locate(st, key, primary_key)[1],
                         select_records(st, locate(st, key, primary_key)[1], key),
                         primary_key, xact, start_time_of(xact, now))

\* Query.__increment_impl: the update runs under a transaction of the
\* timestamp, so it is the increment that commits and logs
increment_updated(result, primary_key, column, xact, timestamp) ==
    IF result.res /\ xact = None
    THEN [ st |-> implicit_commit(result.st, timestamp, result.rids,
                                  StoredQuery("increment", primary_key, <<column>>)),
           res |-> TRUE, rids |-> <<>> ]
    ELSE result

increment_selected(st, r, primary_key, column, xact, now) ==
    IF r.failed \/ Len(r.recs) = 0 THEN QFalse(st)
    ELSE IF r.recs[1].is_deleted THEN QFalse(st)
    ELSE increment_updated(
             update(st, primary_key,
                    [i \in 1 .. num_columns |->
                       IF i = column + 1 THEN columns(r.recs[1])[i] + 1 ELSE None],
                    start_time_of(xact, now), now),
             primary_key, column, xact, start_time_of(xact, now))

increment(st, primary_key, column, xact, now) ==
    increment_selected(st, select_records(st, primary_key, key),
                       primary_key, column, xact, now)

\* query(*args, xact=self) for a stored query
call(st, q, xact, now) ==
    CASE q.type = "insert" -> insert(st, q.cols, xact, now)
      [] q.type = "update" -> update(st, q.pk, q.cols, xact, now)
      [] q.type = "delete" -> delete(st, q.pk, xact, now)
      [] q.type = "increment" -> increment(st, q.pk, q.cols[1], xact, now)

\* Transaction.run: the queries in order under the transaction's start
\* time; abort at the first that returns False, commit after the last.
\* Nothing here writes to the WAL.
RECURSIVE run_queries(_, _, _, _)
run_called(r, queries, start_time, affected_rids) ==
    IF ~r.res THEN [st |-> r.st, res |-> FALSE, rids |-> affected_rids]
    ELSE run_queries(r.st, Tail(queries), start_time, affected_rids \o r.rids)

run_queries(st, queries, start_time, affected_rids) ==
    IF queries = <<>> THEN [st |-> st, res |-> TRUE, rids |-> affected_rids]
    ELSE run_called(call(st, Head(queries), start_time, start_time),
                    queries, start_time, affected_rids)

run_committed(c) == [st |-> c.st, res |-> c.ok]

run_resolved(r, now) ==
    IF r.res THEN run_committed(commit(r.st, now, r.rids))
    ELSE [st |-> abort(r.st, now, r.rids).st, res |-> FALSE]

run(st, queries, now) ==
    IF queries = <<>> THEN [st |-> st, res |-> TRUE]
    ELSE run_resolved(run_queries(st, queries, now, <<>>), now)

(***************************************************************************)
(* The merge: PageDirectory.clear_merge_queue, alloc_merge_locations,      *)
(* notify_merge and Table.__merge, __get_base_pages, __merge_page.         *)
(***************************************************************************)
\* PageDirectory.alloc_merge_locations: a fresh base page index whose pages
\* all count as full; the locations of its data columns at offset 0
alloc_merge_locations(st) ==
    [ st |-> set_num_records([st EXCEPT !.unused_bp_idx = @ + 1],
                             TRUE, st.unused_bp_idx, RawCols, TRUE),
      offsets |-> [i \in 1 .. num_columns |->
                     PageLocation(i - 1 + NUM_META_COLS, TRUE, st.unused_bp_idx, 0)] ]

\* PageDirectory.notify_merge
notify_merge(st, base_rid, offsets, tps) ==
    [st EXCEPT !.offsets[base_rid] = SubSeq(@, 1, NUM_META_COLS) \o offsets,
               !.tps[base_rid] = tps]

\* Table.__get_base_pages: every data page of the old base page copied
\* whole into the page allocated for it
get_base_pages(pages, old_base_page_location, new_base_page_location) ==
    LET copied == {<<PageLocation(new_base_page_location[c].col, TRUE,
                                  new_base_page_location[c].idx, o),
                     Get(pages, PageLocation(old_base_page_location[c + NUM_META_COLS].col, TRUE,
                                             old_base_page_location[c + NUM_META_COLS].idx, o), 0)>> :
                       c \in 1 .. num_columns, o \in 0 .. (data_recs_per_page - 1)}
    IN [l \in DOMAIN pages \cup {p[1] : p \in copied} |->
          IF l \in {p[1] : p \in copied}
          THEN (CHOOSE p \in copied : p[1] = l)[2] ELSE pages[l]]

\* Table.__merge_page: the columns of the tail record's cumulative schema
\* written over the copy, at the base record's offsets.  The position in
\* tp_offsets of column c is one pop(0) per set bit up to it.
schema_columns(schema) == {c \in Cols : schema[c + 1] = 1}

pop_position(schema, c) == Cardinality({d \in schema_columns(schema) : d <= c})

merge_written(schema, tp_offsets) ==
    {c \in schema_columns(schema) : pop_position(schema, c) <= Len(tp_offsets)}

merge_source(pages, tp_idx, tp_offsets, schema, c) ==
    Get(pages, PageLocation(c + NUM_META_COLS, FALSE, tp_idx,
                            tp_offsets[pop_position(schema, c)].off), 0)

merge_columns(pages, tp_idx, b_page_offsets, tp_offsets, schema) ==
    [x \in DOMAIN pages \cup {b_page_offsets[c + NUM_META_COLS + 1] :
                                c \in merge_written(schema, tp_offsets)} |->
       IF \E c \in merge_written(schema, tp_offsets) : b_page_offsets[c + NUM_META_COLS + 1] = x
       THEN merge_source(pages, tp_idx, tp_offsets, schema,
                CHOOSE c \in merge_written(schema, tp_offsets) :
                    b_page_offsets[c + NUM_META_COLS + 1] = x)
       ELSE pages[x]]

merge_located(st, tp_idx, b_page_offsets, l, schema) ==
    IF l.exc THEN [exc |-> TRUE, st |-> st]
    ELSE [ exc |-> merge_written(schema, SubSeq(l.locs, NUM_META_COLS + 1, Len(l.locs)))
                   # schema_columns(schema),
           st |-> [st EXCEPT !.pages =
                     merge_columns(@, tp_idx, b_page_offsets,
                                   SubSeq(l.locs, NUM_META_COLS + 1, Len(l.locs)), schema)] ]

merge_page(st, tp_idx, b_page_offsets, rec_idx) ==
    merge_located(st, tp_idx, b_page_offsets,
        get_tail_record_location(st,
            PageRead(st.pages, PageLocation(RID_COLUMN, FALSE, tp_idx, rec_idx))),
        PageRead(st.pages, PageLocation(SCHEMA_ENCODING_COLUMN, FALSE, tp_idx, rec_idx)))

\* The loop over rec_idx of Table.__merge, from the last slot of the tail
\* page to the first; merged_base_rid is the set of BIDs done this cycle.
RECURSIVE merge_records(_, _, _, _, _)
merge_record_paged(m, tp_idx, new_base_page_location, merged_base_rid, rec_idx, merge_bid, merge_tid, new_base_record_location) ==
    IF m.exc THEN [st |-> m.st, exc |-> TRUE, merged |-> merged_base_rid]
    ELSE merge_records(
             notify_merge(m.st, merge_bid, new_base_record_location, merge_tid),
             tp_idx, new_base_page_location, merged_base_rid \cup {merge_bid}, rec_idx - 1)

new_record_location(new_base_page_location, b) ==
    [i \in 1 .. num_columns |->
       [new_base_page_location[i] EXCEPT !.off = b.locs[i + NUM_META_COLS].off]]

merge_record(st, tp_idx, new_base_page_location, merged_base_rid, rec_idx, merge_bid, merge_tid, b) ==
    IF b.exc THEN [st |-> st, exc |-> TRUE, merged |-> merged_base_rid]
    ELSE IF merge_bid \in merged_base_rid
    THEN merge_records(st, tp_idx, new_base_page_location, merged_base_rid, rec_idx - 1)
    ELSE merge_record_paged(
             merge_page(st, tp_idx,
                 SubSeq(b.locs, 1, NUM_META_COLS)
                     \o new_record_location(new_base_page_location, b),
                 rec_idx),
             tp_idx, new_base_page_location, merged_base_rid, rec_idx,
             merge_bid, merge_tid, new_record_location(new_base_page_location, b))

merge_records(st, tp_idx, new_base_page_location, merged_base_rid, rec_idx) ==
    IF rec_idx < 0 THEN [st |-> st, exc |-> FALSE, merged |-> merged_base_rid]
    ELSE merge_record(st, tp_idx, new_base_page_location, merged_base_rid, rec_idx,
             PageRead(st.pages, PageLocation(BASE_RID_COLUMN, FALSE, tp_idx, rec_idx)),
             PageRead(st.pages, PageLocation(RID_COLUMN, FALSE, tp_idx, rec_idx)),
             get_base_record_location(st,
                 PageRead(st.pages, PageLocation(BASE_RID_COLUMN, FALSE, tp_idx, rec_idx))))

\* The loop over the drained merge queue of Table.__merge, latest tail page
\* first.  An exception ends the merge thread where it is.
RECURSIVE merge_queue_pages(_, _, _)
merge_page_merged(r, queue) ==
    IF r.exc THEN r.st
    ELSE merge_queue_pages(r.st, SubSeq(queue, 1, Len(queue) - 1), r.merged)

merge_page_allocated(a, b, queue, merged_base_rid) ==
    merge_page_merged(
        merge_records([a.st EXCEPT !.pages = get_base_pages(@, b.locs, a.offsets)],
                      queue[Len(queue)], a.offsets, merged_base_rid, data_recs_per_page - 1),
        queue)

merge_tail_page(st, queue, merged_base_rid, b) ==
    IF b.exc THEN st
    ELSE merge_page_allocated(alloc_merge_locations(st), b, queue, merged_base_rid)

merge_queue_pages(st, queue, merged_base_rid) ==
    IF queue = <<>> THEN st
    ELSE merge_tail_page(st, queue, merged_base_rid,
             get_base_record_location(st,
                 PageRead(st.pages,
                     PageLocation(BASE_RID_COLUMN, FALSE, queue[Len(queue)],
                                  data_recs_per_page - 1))))

\* Table.__merge, run by the merge thread from start to end
merge(st) ==
    [merge_queue_pages([st EXCEPT !.merge_queue = <<>>], st.merge_queue, {})
        EXCEPT !.merge_alive = FALSE]

\* Table.drain_merge: merging disabled, the live merge thread joined
drain_merge(st) ==
    [(IF st.merge_alive THEN merge(st) ELSE st) EXCEPT !.allow_merge = FALSE]


(***************************************************************************)
(* rwlock.py and bufferpool.Frame: one frame and the threads that use it   *)
(***************************************************************************)
\* threading.RLock: the owning thread (0 = none) and its recursion count
RLock == [owner |-> 0, count |-> 0]

\* RLock.acquire(timeout=-1) returns at once for the owner and for a free
\* lock, and blocks otherwise
rlock_free(l, t) == l.owner = 0 \/ l.owner = t

rlock_acquire(l, t) == [owner |-> t, count |-> l.count + 1]

\* RLock.release raises RuntimeError for a thread that is not the owner
rlock_raises(l, t) == l.owner # t

rlock_release(l, t) ==
    IF l.count = 1 THEN RLock ELSE [owner |-> t, count |-> l.count - 1]

\* ReadPreferringRWLock.__init__ and Frame.__init__; the frame's bytes are
\* two halves that a writer stores one after the other
NewFrame ==
    [ num_readers |-> 0,
      read_lock |-> RLock,
      exclusive_lock |-> RLock,
      data |-> <<0, 0>> ]

\* ReadPreferringRWLock.acquire_read up to the acquisition of the
\* exclusive lock: take _read_lock, count the reader
acquire_read_counted(f, t) ==
    [f EXCEPT !.read_lock = rlock_acquire(@, t), !.num_readers = @ + 1]

\* ... and from there: the first reader takes the exclusive lock, every
\* reader gives _read_lock back
acquire_read_entered(f, t) ==
    [f EXCEPT !.exclusive_lock = IF f.num_readers = 1 THEN rlock_acquire(@, t) ELSE @,
              !.read_lock = rlock_release(@, t)]

\* ReadPreferringRWLock.release_read: the last reader releases the
\* exclusive lock, whoever took it; when that raises, _read_lock stays held
release_read_raises(f, t) ==
    f.num_readers = 1 /\ rlock_raises(f.exclusive_lock, t)

release_read(f, t) ==
    IF release_read_raises(f, t)
    THEN [f EXCEPT !.read_lock = rlock_acquire(@, t), !.num_readers = @ - 1]
    ELSE [f EXCEPT !.num_readers = @ - 1,
                   !.exclusive_lock = IF f.num_readers = 1 THEN rlock_release(@, t) ELSE @]

\* ReadPreferringRWLock.acquire_write and release_write
acquire_write(f, t) == [f EXCEPT !.exclusive_lock = rlock_acquire(@, t)]

release_write(f, t) == [f EXCEPT !.exclusive_lock = rlock_release(@, t)]

\* The threads, and the number of Frame.read / Frame.write calls of each
NumThreads == 2
MaxFrameOps == 2
Threads == 1 .. NumThreads

\* A thread outside every Frame.read / Frame.write
Idle == [pc |-> "idle", ops |-> 0, val |-> 0, raised |-> FALSE]

(***************************************************************************)
(* bufferpool.Bufferpool over one column file (filesystem.py)              *)
(*                                                                         *)
(* A page is identified by its index in the file and its bytes are one     *)
(* value.  The pool is a record: frames (the OrderedDict's keys, least     *)
(* recently used first), data (the bytes of each resident frame), dirty,   *)
(* pins, file (the column file: one entry per page) and lock (the thread   *)
(* that holds the pool's RLock across the steps of one call, 0 = none).    *)
(* notified holds the threads in Condition.wait that notify_all has woken  *)
(* and that have not run yet.                                              *)
(* The bytes of a page without a frame are written as 0.                   *)
(* BUFFERPOOL_MAX_FRAMES (262144) and the reserve of 10 slots that fetch   *)
(* keeps free when it prefetches are scaled down (to 2 and to 0: a pool of *)
(* this size prefetches whenever it has room).                             *)
(***************************************************************************)
BUFFERPOOL_MAX_FRAMES == 2
PREFETCH_RESERVE == 0
MaxPrefetch == 2     \* fetch(start, k) with k in 0 .. MaxPrefetch
MaxPoolOps == 3      \* calls per behaviour of SpecPool
MaxPage == BUFFERPOOL_MAX_FRAMES    \* one page more than the pool has frames
PageIds == 0 .. MaxPage
Bytes == {0, 1}
Clients == {1, 2, 3}    \* the threads on the bufferpool
Pinners == {1, 2}       \* ... those of SpecPool and SpecPoolWarm

\* Bufferpool.__init__ over the column file of a database that has been in
\* use: two pages, the second one written
NewPool ==
    [ frames |-> <<>>,
      data |-> [p \in PageIds |-> 0],
      dirty |-> {},
      pins |-> [p \in PageIds |-> 0],
      file |-> <<0, 1>>,
      lock |-> 0,
      notified |-> {} ]

\* page_id in self._frames
resident(b, p) == \E i \in 1 .. Len(b.frames) : b.frames[i] = p

\* filesystem.read_pages: up to count pages from page idx on, as many as the
\* file holds
read_pages(file, idx, count) ==
    IF count = 0 \/ Min(Len(file) - idx, count) <= 0
    THEN <<>>
    ELSE SubSeq(file, idx + 1, idx + Min(Len(file) - idx, count))

\* filesystem.write_page: seek and write; the file grows by zeros when the
\* page lies behind its end
write_page(file, idx, data) ==
    [i \in 1 .. Max(Len(file), idx + 1) |->
        IF i = idx + 1 THEN data ELSE IF i <= Len(file) THEN file[i] ELSE 0]

\* the bytes of page idx on disk, as a later read_pages(idx, 1) followed by
\* fetch's zero page for an empty result gives them
page_on_disk(file, idx) == IF idx < Len(file) THEN file[idx + 1] ELSE 0

\* the has_capacity that lets one frame too many in
has_room(b) == Len(b.frames) <= BUFFERPOOL_MAX_FRAMES

\* Bufferpool.has_capacity
has_capacity(b) == Len(b.frames) < BUFFERPOOL_MAX_FRAMES

\* Bufferpool.fetch: the number of pages it asks for
fetch_count(b, count) ==
    Max(Min(BUFFERPOOL_MAX_FRAMES - Len(b.frames) - PREFETCH_RESERVE, count), 1)

\* ... the pages it got (a page of zeros when the file gave none)
fetch_pages(b, start, n) ==
    IF Len(read_pages(b.file, start, n)) = 0 THEN <<0>> ELSE read_pages(b.file, start, n)

\* ... and the loop that makes a frame for every page not yet resident
RECURSIVE fetch_frames(_, _, _, _)
fetch_frames(b, start, pages, idx) ==
    IF idx > Len(pages)
    THEN b
    ELSE IF resident(b, start + idx - 1)
    THEN fetch_frames(b, start, pages, idx + 1)
    ELSE fetch_frames([b EXCEPT !.frames = Append(@, start + idx - 1),
                                !.data = [p \in PageIds |->
                                            IF p = start + idx - 1 THEN pages[idx] ELSE b.data[p]]],
                      start, pages, idx + 1)

fetch_range(b, start, n) ==
    IF \A p \in start .. start + n - 1 : resident(b, p)
    THEN b
    ELSE fetch_frames(b, start,
                      SubSeq(fetch_pages(b, start, n), 1, Min(n, Len(fetch_pages(b, start, n)))), 1)

fetch(b, start, count) ==
    IF ~has_capacity(b) \/ count = 0
    THEN b
    ELSE fetch_range(b, start, fetch_count(b, count))

\* OrderedDict.move_to_end and del
move_to_end(frames, p) == SelectSeq(frames, LAMBDA q : q # p) \o <<p>>

without(frames, p) == SelectSeq(frames, LAMBDA q : q # p)

\* Bufferpool.pin of a resident page
pin_hit(b, p) ==
    [b EXCEPT !.frames = move_to_end(@, p),
              !.pins = [q \in PageIds |-> IF q = p THEN b.pins[q] + 1 ELSE b.pins[q]]]

\* Bufferpool.pin of a page that is not resident, from the fetch on: the
\* pin count is set to 1, whatever it was
pin_set(b, p) == [b EXCEPT !.pins = [q \in PageIds |-> IF q = p THEN 1 ELSE b.pins[q]]]

pin_miss(b, p) == pin_set(fetch(b, p, 1), p)

\* Bufferpool.unpin
unpin(b, p) ==
    [b EXCEPT !.pins = [q \in PageIds |-> IF q = p THEN Max(b.pins[q] - 1, 0) ELSE b.pins[q]]]

\* Bufferpool.unpin, its last two lines: the threads waiting on the pool's
\* condition are notified when the pin count was below 1 before the call
notify_all(b, pin_count, waiters) ==
    IF pin_count < 1 THEN [b EXCEPT !.notified = @ \cup waiters] ELSE b

\* a waiter leaves Condition.wait
awake(b, t) == [b EXCEPT !.notified = @ \ {t}]

\* Bufferpool.mark_dirty
mark_dirty(b, p) == [b EXCEPT !.dirty = @ \cup {p}]

\* Bufferpool.evict_page raises ValueError for a pinned page and KeyError for
\* a page that is not resident, and changes nothing then
evict_page_raises(b, p) == b.pins[p] # 0 \/ ~resident(b, p)

\* the evict_page that forgets the write-back
evict_page_unwritten(b, p) ==
    IF evict_page_raises(b, p)
    THEN b
    ELSE [b EXCEPT !.frames = without(@, p),
                   !.data = [q \in PageIds |-> IF q = p THEN 0 ELSE b.data[q]]]

evict_page(b, p) ==
    IF evict_page_raises(b, p)
    THEN b
    ELSE [b EXCEPT !.file = IF p \in b.dirty THEN write_page(@, p, b.data[p]) ELSE @,
                   !.frames = without(@, p),
                   !.data = [q \in PageIds |-> IF q = p THEN 0 ELSE b.data[q]]]

\* A thread of the bufferpool's client: where it is (pc), the page it has
\* pinned or asked for, the LRU page it waits for, the pages its checkpoint
\* has still to flush, and whether the frame it holds has been evicted under
\* it
Client == [pc |-> "idle", page |-> None, lru |-> None, todo |-> {}, orphan |-> FALSE]

(***************************************************************************)
(* db.py, pagedir.py, transaction_tracker.py: Database.close and the       *)
(* Database.open that follows it.  close() writes the page directory       *)
(* (values.txt: four lines; one pickle per map), flushes the bufferpool,   *)
(* empties the WAL and writes the tracker; open() builds the table again   *)
(* from these files.                                                       *)
(***************************************************************************)
\* the directory before the first close: no values.txt
NoFiles == [values |-> <<>>]

\* PageDirectory.save (with Bufferpool.close, which leaves every page on
\* disk, and TransactionTracker.save)
save(st) ==
    [ values |-> <<st.unused_tp_idx, st.unused_bp_idx, st.unused_base_rid, st.unused_tail_rid>>,
      num_records |-> st.num_records,
      offsets |-> st.offsets,
      con_bp_num_records |-> st.con_bp_num_records,
      con_tp_num_records |-> st.con_tp_num_records,
      tps |-> st.tps,
      merge_queue |-> st.merge_queue,
      range_last_bp |-> st.range_last_bp,
      con_bp_last_con_tp |-> st.con_bp_last_con_tp,
      con_bp_num_resolved |-> st.con_bp_num_resolved,
      con_tp_num_resolved |-> st.con_tp_num_resolved,
      tracker |-> st.aborted,
      pages |-> st.pages ]

\* Database.close: drain_merge, then the files
close(st) == save(drain_merge(st))

\* PageDirectory.load (with TransactionTracker.load): lines[0], lines[1],
\* lines[2] and again lines[2] of values.txt, then the pickles; _con_tp_owner
\* is in no file
load(files) ==
    IF files.values = <<>>
    THEN NewTable(TRUE)
    ELSE [ NewTable(TRUE) EXCEPT
             !.pages = files.pages,
             !.unused_tp_idx = files.values[1],
             !.unused_bp_idx = files.values[2],
             !.unused_base_rid = files.values[3],
             !.unused_tail_rid = files.values[3],
             !.num_records = files.num_records,
             !.offsets = files.offsets,
             !.con_bp_num_records = files.con_bp_num_records,
             !.con_tp_num_records = files.con_tp_num_records,
             !.tps = files.tps,
             !.merge_queue = files.merge_queue,
             !.range_last_bp = files.range_last_bp,
             !.con_bp_last_con_tp = files.con_bp_last_con_tp,
             !.con_bp_num_resolved = files.con_bp_num_resolved,
             !.con_tp_num_resolved = files.con_tp_num_resolved,
             !.aborted = files.tracker ]

\* UniqueIndex.populate over Table.records(): ok = FALSE when records()
\* or the index raises
RECURSIVE populate_from(_, _, _)
populate_added(st, recs, i, a) ==
    IF a.exc THEN [st |-> st, ok |-> FALSE]
    ELSE populate_from([st EXCEPT !.index = a.index], recs, i + 1)

populate_from(st, recs, i) ==
    IF i > Len(recs) THEN [st |-> st, ok |-> TRUE]
    ELSE populate_added(st, recs, i,
                        index_add(st.index, key, columns(recs[i])[key + 1],
                                  raw_of(recs[i], BASE_RID_COLUMN)))

populate_records(st, r) ==
    IF r.exc THEN [st |-> st, ok |-> FALSE] ELSE populate_from(st, r.recs, 1)

populate(st) == populate_records(st, records(st, 0))

\* Database.open after a close: Table(..., load=True)
reopen(files) == populate(load(files))

\* the RIDs that alloc_base_rid and alloc_tail_rid handed out between the
\* table states st and st2, in their order
base_rids_given(st, st2) ==
    [i \in 1 .. (st2.unused_base_rid - st.unused_base_rid) |-> st.unused_base_rid + i - 1]

tail_rids_given(st, st2) ==
    [i \in 1 .. (st.unused_tail_rid - st2.unused_tail_rid) |-> st.unused_tail_rid - i + 1]

NoneGiven == [base |-> <<>>, tail |-> <<>>]

handed(g, st, st2) ==
    [ base |-> g.base \o base_rids_given(st, st2),
      tail |-> g.tail \o tail_rids_given(st, st2) ]

(***************************************************************************)
(* db.py: the table registry and the directory tree under the database     *)
(* path.  A string is the sequence of its characters; a path is the        *)
(* sequence of its components below the database path.  The tree is the    *)
(* set of its directories and the set of its files.  Table names are of    *)
(* letters and "/".                                                        *)
(***************************************************************************)
MAX_TABLE_NAME_LEN == 65535
DB_MARKER == <<"r", "a", "t", "i", "o", "d", "b">>
Digit == <<"0", "1", "2", "3", "4", "5", "6", "7", "8", "9">>

\* str(i) of a raw column index
RECURSIVE str(_)
str(i) == IF i < 10 THEN <<Digit[i + 1]>> ELSE str(i \div 10) \o <<Digit[(i % 10) + 1]>>

\* int(s) of a directory name: ValueError unless s is of decimal digits
int_raises(s) == s = <<>> \/ \E i \in DOMAIN s : \A d \in DOMAIN Digit : Digit[d] # s[i]

RECURSIVE int(_)
int(s) ==
    IF s = <<>> THEN 0
    ELSE 10 * int(SubSeq(s, 1, Len(s) - 1))
           + (CHOOSE d \in DOMAIN Digit : Digit[d] = s[Len(s)]) - 1

\* the components of a relative path name: what lies between its "/"
RECURSIVE split(_, _)
split(name, word) ==
    IF name = <<>> THEN (IF word = <<>> THEN <<>> ELSE <<word>>)
    ELSE IF Head(name) = "/"
    THEN (IF word = <<>> THEN <<>> ELSE <<word>>) \o split(Tail(name), <<>>)
    ELSE split(Tail(name), Append(word, Head(name)))

\* filesystem.get_page_path, below the database path
get_page_path(table_name, raw_column_index, is_base) ==
    split(table_name, <<>>)
        \o << str(raw_column_index),
              IF is_base THEN <<"b", "a", "s", "e">> ELSE <<"t", "a", "i", "l">> >>

\* os.makedirs(p, exist_ok=True): p and the directories above it
makedirs(dirs, p) == dirs \cup {SubSeq(p, 1, n) : n \in 1 .. Len(p)}

\* filesystem.create_column_file
create_column_file(fs, p) ==
    IF p \in fs.files \cup fs.dirs THEN fs
    ELSE [ dirs |-> makedirs(fs.dirs, SubSeq(p, 1, Len(p) - 1)),
           files |-> fs.files \cup {p} ]

\* open(p, "w").close()
touch(fs, p) == [fs EXCEPT !.files = @ \cup {p}]

\* os.scandir(p): the names of its entries; DirEntry.is_dir
scandir(fs, p) ==
    {q[Len(p) + 1] : q \in {r \in fs.dirs \cup fs.files :
                               Len(r) = Len(p) + 1 /\ SubSeq(r, 1, Len(p)) = p}}

is_dir(fs, p) == p \in fs.dirs

\* shutil.rmtree(p)
under(p, q) == Len(q) >= Len(p) /\ SubSeq(q, 1, Len(p)) = p

rmtree(fs, p) ==
    [ dirs |-> {q \in fs.dirs : ~under(p, q)},
      files |-> {q \in fs.files : ~under(p, q)} ]

\* Database.__init__ and a directory that does not exist yet: tables is the
\* registry (name -> name, num_columns, key index), up whether the database
\* is open, raised whether Database.open raised, before the registry as the
\* last Database.close found it
NewCatalog ==
    [ tables |-> <<>>,
      fs |-> [dirs |-> {}, files |-> {}],
      up |-> FALSE,
      raised |-> FALSE,
      before |-> <<>> ]

\* Database.create_table raises ValueError and changes nothing
create_table_raises(c, name, ncols, key_index) ==
    \/ Len(name) > MAX_TABLE_NAME_LEN
    \/ name \in DOMAIN c.tables
    \/ ~(0 <= key_index /\ key_index < ncols)

\* ... the column files of raw columns raw_col and up
RECURSIVE create_columns(_, _, _, _)
create_columns(fs, name, raw_col, raw_cols) ==
    IF raw_col >= raw_cols THEN fs
    ELSE create_columns(
             create_column_file(create_column_file(fs, get_page_path(name, raw_col, TRUE)),
                                get_page_path(name, raw_col, FALSE)),
             name, raw_col + 1, raw_cols)

create_table(c, name, ncols, key_index) ==
    IF create_table_raises(c, name, ncols, key_index) THEN c
    ELSE [c EXCEPT
            !.fs = touch(create_columns(@, name, 0, NUM_META_COLS + ncols),
                         split(name, <<>>) \o <<str(key_index + NUM_META_COLS), <<"k", "e", "y">>>>),
            !.tables = Put(@, name, [name |-> name, num_columns |-> ncols,
                                     key |-> key_index])]

\* Database.drop_table
drop_table(c, name) ==
    IF name \notin DOMAIN c.tables THEN c
    ELSE [c EXCEPT !.tables = [n \in DOMAIN @ \ {name} |-> @[n]],
                   !.fs = rmtree(@, split(name, <<>>))]

\* Database.close: PageDirectory.save of every table (values.txt stands for
\* the files it writes into the table's directory), the tracker's file, and
\* an empty registry
RECURSIVE save_tables(_, _)
save_tables(fs, names) ==
    IF names = {} THEN fs
    ELSE save_tables(touch(fs, split(CHOOSE n \in names : TRUE, <<>>)
                                   \o << <<"v", "a", "l", "u", "e", "s", ".", "t", "x", "t">> >>),
                     names \ {CHOOSE n \in names : TRUE})

db_close(c) ==
    [c EXCEPT !.fs = touch(save_tables(@, DOMAIN c.tables),
                           << <<"x", "a", "c", "t", "_", "a", "b", "o", "r", "t", "e", "d">> >>),
              !.before = c.tables,
              !.tables = <<>>,
              !.up = FALSE]

\* Database.__init_tables, for the directory `table` of the database path:
\* its column subdirectories, those of data columns, and the one that holds
\* the key marker
col_dirs(fs, table) == {col \in scandir(fs, <<table>>) : is_dir(fs, <<table, col>>)}

data_cols(fs, table) ==
    {col \in col_dirs(fs, table) : ~int_raises(col) /\ int(col) >= NUM_META_COLS}

key_cols(fs, table) ==
    {col \in data_cols(fs, table) : <<table, col, <<"k", "e", "y">>>> \in fs.files}

\* int(col.name) raises ValueError, or one of the two asserts fails
init_table_raises(fs, table) ==
    \/ \E col \in col_dirs(fs, table) : int_raises(col)
    \/ data_cols(fs, table) = {}
    \/ key_cols(fs, table) = {}

\* the Table it registers (one column has the key marker)
init_table(fs, table) ==
    [ name |-> table,
      num_columns |-> Cardinality(data_cols(fs, table)),
      key |-> int(CHOOSE col \in key_cols(fs, table) : TRUE) - NUM_META_COLS ]

table_dirs(fs) == {table \in scandir(fs, <<>>) : is_dir(fs, <<table>>)}

init_tables_raises(fs) == \E table \in table_dirs(fs) : init_table_raises(fs, table)

init_tables(fs, tables) == [table \in tables |-> init_table(fs, table)]

\* Database.open: Bufferpool and WriteAheadLog on the path (the WAL's file),
\* the tables of an existing database, the marker
db_open_files(fs) ==
    touch(touch(fs, << <<"w", "a", "l">> >>), <<DB_MARKER>>)

db_open(c) ==
    IF <<DB_MARKER>> \in c.fs.files
    THEN [c EXCEPT !.fs = db_open_files(@),
                   !.tables = init_tables(c.fs, table_dirs(c.fs)),
                   !.up = TRUE]
    ELSE [c EXCEPT !.fs = db_open_files(@), !.up = TRUE]

\* Database.open raises in __init_tables: the tables that os.scandir gave
\* before the one that raised are registered (any of those that do not
\* raise), the WAL's file exists, and the call has not returned
db_open_raises(c) == <<DB_MARKER>> \in c.fs.files /\ init_tables_raises(c.fs)

db_open_raised(c, tables) ==
    [c EXCEPT !.fs = touch(@, << <<"w", "a", "l">> >>),
              !.tables = init_tables(c.fs, {t \in table_dirs(c.fs) : t \in tables}),
              !.raised = TRUE]

(***************************************************************************)
(* transaction_tracker.py over rwlock.WritePreferringRWLock.  The lock's   *)
(* methods run under its internal RLock, which Condition.wait_for gives up *)
(* while it waits: every method is one step, or two around its wait.  The  *)
(* waits have no timeout (the tracker builds its lock without one), and    *)
(* every change that makes a waiter's predicate true is followed by        *)
(* notify_all, so a waiter goes on when its predicate holds.               *)
(***************************************************************************)
NumTrackers == 2      \* threads that call the tracker
MaxTimestamp == 2     \* start times 1 .. MaxTimestamp
MaxTrackerOps == 4    \* calls per behaviour of SpecTracker
Trackers == 1 .. NumTrackers
Timestamps == 1 .. MaxTimestamp

\* WritePreferringRWLock.__init__
WPLock ==
    [ num_readers_active |-> 0,
      num_writers_waiting |-> 0,
      is_writer_active |-> FALSE,
      write_thread_id |-> -1,
      recursion_level |-> -1 ]

\* the predicates acquire_read and acquire_write wait for
wp_read_ready(l) == l.num_writers_waiting = 0 /\ ~l.is_writer_active

wp_write_ready(l) == l.num_readers_active = 0 /\ ~l.is_writer_active

\* WritePreferringRWLock.acquire_read from the wait on, and release_read
wp_acquire_read(l) == [l EXCEPT !.num_readers_active = @ + 1]

wp_release_read(l) == [l EXCEPT !.num_readers_active = @ - 1]

\* WritePreferringRWLock.acquire_write by a thread that is not the writer:
\* up to the wait, and from the wait on
wp_acquire_write_waiting(l) == [l EXCEPT !.num_writers_waiting = @ + 1]

wp_acquire_write(l, t) ==
    [l EXCEPT !.num_writers_waiting = @ - 1,
              !.write_thread_id = t,
              !.recursion_level = 1,
              !.is_writer_active = TRUE]

\* WritePreferringRWLock.release_write
wp_release_write(l) ==
    IF l.recursion_level - 1 = 0
    THEN [l EXCEPT !.recursion_level = 0, !.is_writer_active = FALSE, !.write_thread_id = -1]
    ELSE [l EXCEPT !.recursion_level = @ - 1]

\* a membership test that finds no timestamp
in_no_tracker(aborted, timestamp) == FALSE

\* timestamp in self._aborted
in_tracker(aborted, timestamp) == timestamp \in DOMAIN aborted

\* TransactionTracker.is_committed, is_aborted, is_maybe_pending on the
\* dict: True = aborted, False = committed, absent = pending
is_committed(aborted, timestamp) == Get(aborted, timestamp, TRUE) = FALSE

is_aborted(aborted, timestamp) == Get(aborted, timestamp, FALSE) = TRUE

is_maybe_pending(aborted, timestamp) == timestamp \notin DOMAIN aborted

\* what the three answer for a timestamp
status(aborted, timestamp) ==
    << is_committed(aborted, timestamp),
       is_aborted(aborted, timestamp),
       is_maybe_pending(aborted, timestamp) >>

\* A thread outside the tracker: its last call (op, timestamp), whether the
\* tracker held the timestamp when the call was made, and what the call
\* returned ("raised" for the ValueError)
TrkIdle == [pc |-> "idle", op |-> "none", timestamp |-> 0, was |-> FALSE, res |-> "none"]

\* TransactionTracker.__init__
NewTracker ==
    [ aborted |-> <<>>,
      lock |-> WPLock,
      th |-> [t \in Trackers |-> TrkIdle] ]

(***************************************************************************)
(* A reader inside Table.get_record_version while the merge thread runs.   *)
(* The reader's position (pc), the base RID it reads, the TPS and the      *)
(* locations that get_base_record_location returned to it under the page   *)
(* directory's read lock, the base record it read through them, the TPS it *)
(* read from page_directory._tps for its decision and the locations that   *)
(* were published at that moment, and the record it returns.               *)
(***************************************************************************)
MaxWalkOps == 8      \* calls, merges and reader steps per behaviour of SpecWalk

NoWalk ==
    [ pc |-> "idle", base_rid |-> 0, tps |-> 0, locs |-> <<>>, rec |-> Raised,
      used |-> 0, now |-> <<>>, res |-> Raised ]

(***************************************************************************)
(* The workload of SpecQueue: a loader that inserts the keys 1, 2, ... in  *)
(* order, a client that increments, one transaction of two updates run by  *)
(* a TransactionWorker thread query by query, and the merge thread.        *)
(***************************************************************************)
MaxQueueOps == 10    \* calls, transaction steps and merges per behaviour
MaxQueueKeys == 3    \* the loader's keys 1 .. MaxQueueKeys
IncKeys == {1}      \* the keys the client increments

\* the worker's transaction: where it is, its start time, the queries it has
\* still to run and its affected_rids
NoTxn == [pc |-> "none", start_time |-> 0, todo |-> <<>>, rids |-> <<>>, res |-> FALSE]

(***************************************************************************)
(* A transaction over two tables of one database.  The tables share the    *)
(* database's TransactionTracker (db.py 26, 145); every table has a page   *)
(* directory of its own, and RIDs are counted per directory.               *)
(***************************************************************************)
MaxTwoOps == 8       \* calls and transaction steps per behaviour of SpecTwo
MaxOtherKeys == 1    \* the loader's keys 1 .. MaxOtherKeys of the second table

\* a table seen with the database's tracker
share(st, aborted) == [st EXCEPT !.aborted = aborted]

\* PageDirectory.notify_resolve with RIDs of any origin: exc is the KeyError
\* of self._offsets[rid], raised after the RIDs before it were counted
RECURSIVE notify_resolve_any(_, _)
notify_resolve_any(st, affected_rids) ==
    IF affected_rids = <<>> THEN [st |-> st, exc |-> FALSE]
    ELSE IF Head(affected_rids) \notin DOMAIN st.offsets THEN [st |-> st, exc |-> TRUE]
    ELSE notify_resolve_any(mark_resolved(st, Head(affected_rids)), Tail(affected_rids))

\* self.__pagedirs of a transaction: the tables of its queries in the order
\* add_query met them
pagedirs(queries) ==
    IF \A i \in DOMAIN queries : queries[i].table = queries[1].table
    THEN <<queries[1].table>>
    ELSE <<queries[1].table,
           queries[CHOOSE i \in DOMAIN queries : queries[i].table # queries[1].table].table>>

\* "for pagedir in self.__pagedirs.values(): pagedir.notify_resolve(
\* self.affected_rids)" of Transaction.commit and abort; an exception ends
\* the loop and is swallowed
RECURSIVE notify_pagedirs(_, _, _)
notified(tabs, names, affected_rids, n) ==
    IF n.exc THEN [tabs |-> [tabs EXCEPT ![Head(names)] = n.st], ok |-> FALSE]
    ELSE notify_pagedirs([tabs EXCEPT ![Head(names)] = n.st], Tail(names), affected_rids)

notify_pagedirs(tabs, names, affected_rids) ==
    IF names = <<>> THEN [tabs |-> tabs, ok |-> TRUE]
    ELSE notified(tabs, names, affected_rids,
                  notify_resolve_any(tabs[Head(names)], affected_rids))

\* Transaction.commit (is_abort = FALSE) and abort (TRUE) over the tables
resolve_tables(tabs, names, start_time, affected_rids, is_abort) ==
    IF start_time \in DOMAIN tabs.A.aborted
    THEN [tabs |-> tabs, ok |-> FALSE]
    ELSE notify_pagedirs(
             [A |-> share(tabs.A, Put(tabs.A.aborted, start_time, is_abort)),
              B |-> share(tabs.B, Put(tabs.A.aborted, start_time, is_abort))],
             names, affected_rids)

\* Transaction.run over the tables
RECURSIVE run_tables(_, _, _, _, _)
ran_tables(tabs, names, queries, start_time, affected_rids, r) ==
    IF ~r.res
    THEN [ tabs |-> resolve_tables([tabs EXCEPT ![Head(queries).table] = r.st], names,
                                   start_time, affected_rids, TRUE).tabs,
           res |-> FALSE ]
    ELSE run_tables([tabs EXCEPT ![Head(queries).table] = r.st], names, Tail(queries),
                    start_time, affected_rids \o r.rids)

run_tables(tabs, names, queries, start_time, affected_rids) ==
    IF queries = <<>>
    THEN [ tabs |-> resolve_tables(tabs, names, start_time, affected_rids, FALSE).tabs,
           res |-> resolve_tables(tabs, names, start_time, affected_rids, FALSE).ok ]
    ELSE ran_tables(tabs, names, queries, start_time, affected_rids,
                    call(tabs[Head(queries).table], Head(queries).q, start_time, start_time))

(***************************************************************************)
(* wal.py: the log file is a sequence of bytes.  A stored query is its     *)
(* QueryType, its table name (a sequence of code points) and its argument  *)
(* tuple; None is an argument like in the calls.  exc = TRUE is an         *)
(* exception that leaves the function.                                     *)
(***************************************************************************)
MaxWalXacts == 2      \* transactions logged per behaviour of SpecWal
MaxWalQueries == 2    \* queries per logged transaction
MaxWalTime == 2       \* start times 1 .. MaxWalTime
WalVal == 2           \* the value the logged queries write (and its negative)
MAX_TABLE_SIZE_INT == 2
COL_ENCODING == 2
N_QUERY_ENCODING == 8
INSERT == 1
UPDATE == 2
INCREMENT == 3
DELETE == 4
READONLY == 5

\* QueryType.is_readonly
is_readonly(val) == val > READONLY

\* value >> (8 * num_bytes)
RECURSIVE shifted(_, _)
shifted(value, num_bytes) ==
    IF num_bytes = 0 THEN value ELSE shifted(value \div 256, num_bytes - 1)

\* int.to_bytes(num_bytes, "little", signed=signed): the OverflowError and
\* the bytes, lowest first (two's complement for a negative value)
RECURSIVE to_bytes(_, _)
to_bytes(value, num_bytes) ==
    IF num_bytes = 0 THEN <<>>
    ELSE <<value % 256>> \o to_bytes(value \div 256, num_bytes - 1)

to_bytes_raises(value, num_bytes, signed) ==
    IF ~signed THEN shifted(value, num_bytes) # 0
    ELSE /\ ~(shifted(value, num_bytes) = 0 /\ shifted(value, num_bytes - 1) < 128)
         /\ ~(shifted(value, num_bytes) = 0 - 1 /\ shifted(value, num_bytes - 1) % 256 >= 128)

\* int.from_bytes(b, "little", signed=signed), from the highest byte down;
\* b"" is 0
RECURSIVE from_bytes_from(_, _, _)
from_bytes_from(b, i, acc) ==
    IF i = 0 THEN acc ELSE from_bytes_from(b, i - 1, acc * 256 + b[i])

from_bytes(b, signed) ==
    from_bytes_from(b, Len(b), IF signed /\ b # <<>> /\ b[Len(b)] >= 128 THEN 0 - 1 ELSE 0)

\* str.encode("utf-8") for code points below 2048: one byte below 128, two
\* bytes from there on
RECURSIVE encode(_)
encode(s) ==
    IF s = <<>> THEN <<>>
    ELSE IF Head(s) < 128 THEN <<Head(s)>> \o encode(Tail(s))
    ELSE <<192 + (Head(s) \div 64), 128 + (Head(s) % 64)>> \o encode(Tail(s))

\* bytes.decode("utf-8"): UnicodeDecodeError for a lead byte without its
\* continuation byte, a continuation byte without lead, and the bytes that
\* start no sequence; the lead bytes of the three- and four-byte forms are
\* in no file of these workloads and are taken as raising
RECURSIVE decode(_)
decoded(c, rest) ==
    IF rest.exc THEN rest ELSE [exc |-> FALSE, s |-> <<c>> \o rest.s]

decode(b) ==
    IF b = <<>> THEN [exc |-> FALSE, s |-> <<>>]
    ELSE IF Head(b) < 128 THEN decoded(Head(b), decode(Tail(b)))
    ELSE IF Head(b) >= 194 /\ Head(b) < 224 /\ Len(b) >= 2 /\ b[2] >= 128 /\ b[2] < 192
    THEN decoded((Head(b) - 192) * 64 + (b[2] - 128), decode(Tail(Tail(b))))
    ELSE [exc |-> TRUE, s |-> <<>>]

\* bitarray(endian="little").tobytes(): eight flags per byte, the first in
\* the lowest bit, the last byte padded with zeros
RECURSIVE flags_value(_, _)
flags_value(flags, i) ==
    IF i > Min(Len(flags), 8) THEN 0
    ELSE flags[i] * Pow2(i - 1) + flags_value(flags, i + 1)

RECURSIVE flags_tobytes(_)
flags_tobytes(flags) ==
    IF flags = <<>> THEN <<>>
    ELSE <<flags_value(flags, 1)>> \o flags_tobytes(SubSeq(flags, 9, Len(flags)))

\* bitarray.frombytes(b)
flags_frombytes(b) == [i \in 1 .. (8 * Len(b)) |-> (b[((i - 1) \div 8) + 1] \div Pow2((i - 1) % 8)) % 2]

(***************************************************************************)
(* TransactionSerializer: buf is self._buf; exc is set by the first        *)
(* exception and nothing is appended after it.                             *)
(***************************************************************************)
NoBuf == [exc |-> FALSE, buf |-> <<>>]

serialize_int(w, value, num_bytes, signed) ==
    IF w.exc \/ to_bytes_raises(value, num_bytes, signed) THEN [w EXCEPT !.exc = TRUE]
    ELSE [w EXCEPT !.buf = @ \o to_bytes(value, num_bytes)]

serialize_uint(w, value, num_bytes) == serialize_int(w, value, num_bytes, FALSE)

\* TransactionSerializer.__serialize_str: len(s) counts characters
serialize_str(w, s) ==
    IF w.exc \/ Len(s) > MAX_TABLE_NAME_LEN THEN [w EXCEPT !.exc = TRUE]
    ELSE [serialize_uint(w, Len(s), MAX_TABLE_SIZE_INT) EXCEPT !.buf = @ \o encode(s)]

RECURSIVE serialize_cols(_, _, _)
serialize_cols(w, cols, skip_none) ==
    IF cols = <<>> THEN w
    ELSE IF skip_none /\ Head(cols) = None THEN serialize_cols(w, Tail(cols), skip_none)
    ELSE serialize_cols(serialize_int(w, Head(cols), DATA_SIZE, TRUE), Tail(cols), skip_none)

serialize_insert(w, q) == serialize_cols(serialize_uint(w, Len(q), COL_ENCODING), q, FALSE)

update_flags(cols) == [i \in DOMAIN cols |-> IF cols[i] = None THEN 0 ELSE 1]

serialize_flags(w, cols) ==
    IF w.exc THEN w ELSE [w EXCEPT !.buf = @ \o flags_tobytes(update_flags(cols))]

serialize_update(w, q) ==
    serialize_cols(
        serialize_flags(
            serialize_uint(serialize_int(w, Head(q), DATA_SIZE, TRUE), Len(q) - 1, COL_ENCODING),
            Tail(q)),
        Tail(q), TRUE)

serialize_increment(w, q) ==
    serialize_uint(serialize_int(w, q[1], DATA_SIZE, TRUE), q[2], COL_ENCODING)

serialize_delete(w, q) == serialize_int(w, q[1], DATA_SIZE, TRUE)

serialize_args(w, q) ==
    IF q.type = INSERT THEN serialize_insert(w, q.args)
    ELSE IF q.type = UPDATE THEN serialize_update(w, q.args)
    ELSE IF q.type = INCREMENT THEN serialize_increment(w, q.args)
    ELSE IF q.type = DELETE THEN serialize_delete(w, q.args)
    ELSE w

serialize_query(w, q) ==
    IF is_readonly(q.type) THEN w
    ELSE serialize_args(serialize_str(serialize_uint(w, q.type, 1), q.table), q)

RECURSIVE serialize_queries(_, _)
serialize_queries(w, queries) ==
    IF queries = <<>> THEN w
    ELSE serialize_queries(serialize_query(w, Head(queries)), Tail(queries))

\* TransactionSerializer.serialize
serialize(x) ==
    serialize_queries(
        serialize_uint(serialize_uint(NoBuf, x.start_time, DATA_SIZE),
                       Len(x.queries), N_QUERY_ENCODING),
        x.queries)

(***************************************************************************)
(* WriteAheadLogParser over the file f: pos is the cursor (1 is the first  *)
(* byte), read gives the bytes that are left when fewer than asked for.    *)
(***************************************************************************)
read(f, pos, n) == SubSeq(f, pos, Min(pos + n - 1, Len(f)))
tell(f, pos, n) == Min(pos + n, Len(f) + 1)

parse_int(f, pos, num_bytes, signed) ==
    [val |-> from_bytes(read(f, pos, num_bytes), signed), pos |-> tell(f, pos, num_bytes)]

parse_uint(f, pos, num_bytes) == parse_int(f, pos, num_bytes, FALSE)

\* WriteAheadLogParser.__parse_str: n_chars bytes are read
parse_str_read(f, n) ==
    [ exc |-> decode(read(f, n.pos, n.val)).exc,
      val |-> decode(read(f, n.pos, n.val)).s,
      pos |-> tell(f, n.pos, n.val) ]

parse_str(f, pos) == parse_str_read(f, parse_uint(f, pos, MAX_TABLE_SIZE_INT))

\* the loop "for _ in range(n): append(self.__parse_int(DATA_SIZE))"
RECURSIVE parse_ints(_, _, _)
parse_ints_next(f, v, rest) == [val |-> <<v.val>> \o rest.val, pos |-> rest.pos]

parse_ints_from(f, v, n) == parse_ints_next(f, v, parse_ints(f, v.pos, n - 1))

parse_ints(f, pos, n) ==
    IF n = 0 THEN [val |-> <<>>, pos |-> pos]
    ELSE parse_ints_from(f, parse_int(f, pos, DATA_SIZE, TRUE), n)

parse_insert_cols(f, n) == parse_ints(f, n.pos, n.val)

parse_insert(f, pos) == parse_insert_cols(f, parse_uint(f, pos, COL_ENCODING))

\* the loop over the flags of _parse_update
RECURSIVE parse_flagged(_, _, _)
parse_flagged_next(c, rest) == [val |-> <<c>> \o rest.val, pos |-> rest.pos]

parse_flagged_int(f, v, flags) == parse_flagged_next(v.val, parse_flagged(f, v.pos, Tail(flags)))

parse_flagged(f, pos, flags) ==
    IF flags = <<>> THEN [val |-> <<>>, pos |-> pos]
    ELSE IF Head(flags) = 0 THEN parse_flagged_next(None, parse_flagged(f, pos, Tail(flags)))
    ELSE parse_flagged_int(f, parse_int(f, pos, DATA_SIZE, TRUE), flags)

update_bits(f, n) ==
    SubSeq(flags_frombytes(read(f, n.pos, (n.val + 7) \div 8)), 1,
           Min(n.val, 8 * Len(read(f, n.pos, (n.val + 7) \div 8))))

parse_update_cols(f, n) ==
    parse_flagged(f, tell(f, n.pos, (n.val + 7) \div 8), update_bits(f, n))

parse_update_key(k, cols) == [val |-> <<k.val>> \o cols.val, pos |-> cols.pos]

parse_update_from(f, k) ==
    parse_update_key(k, parse_update_cols(f, parse_uint(f, k.pos, COL_ENCODING)))

parse_update(f, pos) == parse_update_from(f, parse_int(f, pos, DATA_SIZE, TRUE))

parse_increment_column(k, c) == [val |-> <<k.val, c.val>>, pos |-> c.pos]

parse_increment_from(f, k) == parse_increment_column(k, parse_uint(f, k.pos, COL_ENCODING))

parse_increment(f, pos) == parse_increment_from(f, parse_int(f, pos, DATA_SIZE, TRUE))

parse_delete_key(k) == [val |-> <<k.val>>, pos |-> k.pos]

parse_delete(f, pos) == parse_delete_key(parse_int(f, pos, DATA_SIZE, TRUE))

\* WriteAheadLogParser._parse_query with RedoQuery.to_stored_query: the
\* ValueError of QueryType(i), the RuntimeErrors of a read-only type, the
\* UnicodeDecodeError of the table name
parse_args(f, type, pos) ==
    IF type = INSERT THEN parse_insert(f, pos)
    ELSE IF type = UPDATE THEN parse_update(f, pos)
    ELSE IF type = INCREMENT THEN parse_increment(f, pos)
    ELSE parse_delete(f, pos)

parse_query_args(type, table, a) ==
    [exc |-> FALSE, val |-> [type |-> type, table |-> table, args |-> a.val], pos |-> a.pos]

parse_query_table(f, t, s) ==
    IF s.exc THEN [exc |-> TRUE, val |-> <<>>, pos |-> s.pos]
    ELSE parse_query_args(t.val, s.val, parse_args(f, t.val, s.pos))

parse_query_type(f, t) ==
    IF t.val \notin {INSERT, UPDATE, INCREMENT, DELETE}
    THEN [exc |-> TRUE, val |-> <<>>, pos |-> t.pos]
    ELSE parse_query_table(f, t, parse_str(f, t.pos))

parse_query(f, pos) == parse_query_type(f, parse_uint(f, pos, 1))

\* the loop "for _ in range(num_queries)" of _parse_xact
RECURSIVE parse_queries(_, _, _)
parse_queries_next(q, rest) ==
    IF rest.exc THEN rest
    ELSE [exc |-> FALSE, val |-> <<q.val>> \o rest.val, pos |-> rest.pos]

parse_queries_from(f, q, n) ==
    IF q.exc THEN q ELSE parse_queries_next(q, parse_queries(f, q.pos, n - 1))

parse_queries(f, pos, n) ==
    IF n = 0 THEN [exc |-> FALSE, val |-> <<>>, pos |-> pos]
    ELSE parse_queries_from(f, parse_query(f, pos), n)

parse_xact_queries(start_time, qs) ==
    IF qs.exc THEN qs
    ELSE [ exc |-> FALSE, pos |-> qs.pos,
           val |-> [start_time |-> start_time.val, queries |-> qs.val] ]

parse_xact_count(f, start_time, n) ==
    parse_xact_queries(start_time, parse_queries(f, n.pos, n.val))

parse_xact_from(f, start_time) ==
    parse_xact_count(f, start_time, parse_uint(f, start_time.pos, N_QUERY_ENCODING))

parse_xact(f, pos) == parse_xact_from(f, parse_uint(f, pos, DATA_SIZE))

\* WriteAheadLogParser.parse: "while self._f.tell() < self._fsize"
RECURSIVE parse_at(_, _)
parse_more(x, rest) ==
    IF rest.exc THEN rest ELSE [exc |-> FALSE, xacts |-> <<x.val>> \o rest.xacts]

parse_rest(f, x) ==
    IF x.exc THEN [exc |-> TRUE, xacts |-> <<>>] ELSE parse_more(x, parse_at(f, x.pos))

parse_at(f, pos) ==
    IF pos > Len(f) THEN [exc |-> FALSE, xacts |-> <<>>]
    ELSE parse_rest(f, parse_xact(f, pos))

parse(f) == parse_at(f, 1)

\* WriteAheadLog.recover with RedoTransaction.to_xact: tables[q.table_name]
\* raises KeyError for a name that is no table
recover(f, tables) ==
    IF parse(f).exc THEN parse(f)
    ELSE IF \E i \in DOMAIN parse(f).xacts : \E j \in DOMAIN parse(f).xacts[i].queries :
                parse(f).xacts[i].queries[j].table \notin tables
    THEN [exc |-> TRUE, xacts |-> <<>>]
    ELSE parse(f)

NoWal == [file |-> <<>>, logged |-> <<>>, res |-> [exc |-> FALSE, xacts |-> <<>>], pc |-> "log"]

(***************************************************************************)
(* rwlock.WritePreferringRWLock with its mutex (self._lock, an RLock) and  *)
(* its timeout.  Condition.wait_for gives the mutex up entirely while it   *)
(* waits and takes it back with the count it had; with a timeout that is   *)
(* not positive it returns the predicate's value without waiting.          *)
(***************************************************************************)
BUFFERPOOL_LOCK_TIMEOUT == -1
NumRwThreads == 3     \* threads that use the lock
MaxRwCalls == 5       \* acquire calls per behaviour of SpecRW
MaxDepth == 2         \* nested acquire_write calls of one thread
RwThreads == 1 .. NumRwThreads

\* timeout: <<>> for None, <<seconds>> for a number
NoTimeout == <<>>

\* Condition.wait_for(predicate, timeout) with a false predicate: endtime is
\* now + timeout, and the loop breaks when the time left is <= 0
wait_for_expired(timeout) == timeout # NoTimeout /\ timeout[1] <= 0

\* the mutex after Condition.wait has taken it back with the saved count and
\* the method has released it once
rlock_restored(count, t) == IF count = 1 THEN RLock ELSE [owner |-> t, count |-> count - 1]

\* acquire_write by the thread that is the writer: the recursion level goes
\* up and the method returns
wp_reenter(l) == [l EXCEPT !.recursion_level = @ + 1]

\* A thread outside the lock's methods: the sides it was given and has not
\* released, the mutex count saved by a wait, and what its last call returned
RwIdle == [pc |-> "idle", reads |-> 0, writes |-> 0, saved |-> 0, res |-> "none"]

\* WritePreferringRWLock.__init__(timeout)
BuiltRW(timeout) ==
    [ lock |-> WPLock,
      mutex |-> RLock,
      timeout |-> timeout,
      calls |-> 0,
      th |-> [t \in RwThreads |-> RwIdle] ]

\* WritePreferringRWLock(), as PageDirectory and TransactionTracker build it
NewRW == BuiltRW(NoTimeout)

(***************************************************************************)
(* Table.notify_merge and Table.drain_merge over the table's merge lock,   *)
(* PageDirectory.alloc_tail_rid over the page directory's lock, and the    *)
(* merge threads the table has started: workers holds where each of them   *)
(* is ("queue" before clear_merge_queue, "merge" before the directory      *)
(* calls of its merge, "dead" after its end), merge_thread is the index of *)
(* self.__merge_thread (0 = None), merge_lock the thread inside "with      *)
(* self.__merge_lock" (0 = none).                                          *)
(***************************************************************************)
NumUpdaters == 2      \* threads that run updates
MaxAllocs == 5        \* calls of alloc_tail_rid per behaviour of SpecDrain
Updaters == 1 .. NumUpdaters
Closer == NumUpdaters + 1     \* the thread that calls drain_merge

\* Table.__init__ with a new PageDirectory
NewMerging ==
    [ allow_merge |-> TRUE,
      merge_lock |-> 0,
      merge_thread |-> 0,
      workers |-> <<>>,
      lock |-> WPLock,
      unused_tail_rid |-> TAIL_RID_BEGIN,
      th |-> [t \in Updaters |-> "idle"],
      closer |-> "idle" ]

\* an is_alive that never sees a live thread
thread_not_alive(m) == FALSE

\* self.__merge_thread is not None and self.__merge_thread.is_alive()
thread_alive(m) == m.merge_thread # 0 /\ m.workers[m.merge_thread] # "dead"

\* Table.notify_merge inside "with self.__merge_lock"
notify_merge_locked(m) ==
    IF ~m.allow_merge \/ thread_alive(m)
    THEN m
    ELSE [m EXCEPT !.workers = Append(@, "queue"), !.merge_thread = Len(m.workers) + 1]

\* rid % config.MERGE_INTERVAL == config.MERGE_INTERVAL - 1
merge_due(rid) == rid % MERGE_INTERVAL = MERGE_INTERVAL - 1

\* a method of the page directory that runs under self._lock.write() from
\* its first line to its last
under_write(l, t) == wp_release_write(wp_acquire_write(wp_acquire_write_waiting(l), t))

\* Table.drain_merge up to the join
drain_merge_locked(m) ==
    IF thread_alive(m)
    THEN [m EXCEPT !.allow_merge = FALSE, !.merge_lock = Closer, !.closer = "joining"]
    ELSE [m EXCEPT !.allow_merge = FALSE, !.closer = "drained"]

(***************************************************************************)
(* The bufferpool of a Database next to its registry and its directory     *)
(* tree (SpecDrop).  A page is named by the path of its column file (page  *)
(* index 0); frames is the pool's OrderedDict, least recently used first;  *)
(* dirty is its _dirty; records counts the base RIDs that the page         *)
(* directory of each table has given out; op, arg and error are the last   *)
(* call, its table name and the exception it raised; dropped the names     *)
(* that drop_table has removed.  All pins are inside the calls, so no      *)
(* frame is pinned between them.                                           *)
(***************************************************************************)
MaxDropOps == 6       \* calls per behaviour of SpecDrop
DropColumns == 1      \* num_columns of the tables of SpecDrop
DropNames == { <<"G">>, <<"G", "r">> }

\* Bufferpool.__init__
NewDbPool ==
    [ frames |-> <<>>,
      dirty |-> {},
      records |-> [n \in DropNames |-> 0],
      dropped |-> {},
      op |-> "none",
      arg |-> <<>>,
      error |-> "none" ]

dp_called(d, op, arg) == [d EXCEPT !.op = op, !.arg = arg, !.error = "none"]

dp_raised(d, error) == [d EXCEPT !.error = error]

\* filesystem.write_page opens the file "r+b": FileNotFoundError
write_page_raises(fs, p) == p \notin fs.files

\* Bufferpool.evict_page of an unpinned page: KeyError for a dirty page that
\* is not resident, the error of write_page, else the frame is deleted
dp_evict_page(d, fs, p) ==
    IF p \in d.dirty /\ ~resident(d, p) THEN dp_raised(d, "KeyError")
    ELSE IF p \in d.dirty /\ write_page_raises(fs, p) THEN dp_raised(d, "FileNotFoundError")
    ELSE IF ~resident(d, p) THEN dp_raised(d, "KeyError")
    ELSE [d EXCEPT !.frames = without(@, p)]

\* Bufferpool.pin after the eviction: fetch and the frame at the end
dp_pinned(d, p) ==
    IF d.error # "none" THEN d ELSE [d EXCEPT !.frames = Append(without(@, p), p)]

\* Frame.write: mark_dirty
dp_marked(d, p) ==
    IF d.error # "none" THEN d ELSE [d EXCEPT !.dirty = @ \cup {p}]

\* Bufferpool.write: pin (with _evict_lru when the pool is full), mark_dirty
dp_write(d, fs, p) ==
    IF d.error # "none" THEN d
    ELSE IF resident(d, p) THEN [d EXCEPT !.frames = Append(without(@, p), p), !.dirty = @ \cup {p}]
    ELSE IF Len(d.frames) < BUFFERPOOL_MAX_FRAMES THEN [d EXCEPT !.frames = Append(@, p), !.dirty = @ \cup {p}]
    ELSE dp_marked(dp_pinned(dp_evict_page(d, fs, Head(d.frames)), p), p)

\* Table.add_base_record: the base page of every raw column, in turn
RECURSIVE dp_write_pages(_, _, _, _)
dp_write_pages(d, fs, name, raw_col) ==
    IF raw_col >= NUM_META_COLS + DropColumns THEN d
    ELSE dp_write_pages(dp_write(d, fs, get_page_path(name, raw_col, TRUE)), fs, name, raw_col + 1)

add_base_record_pages(d, fs, name) ==
    dp_write_pages([d EXCEPT !.records[name] = @ + 1], fs, name, 0)

\* Bufferpool._evict_all
RECURSIVE dp_evict_all(_, _)
dp_evict_all(d, fs) ==
    IF d.frames = <<>> \/ d.error # "none" THEN d
    ELSE dp_evict_all(dp_evict_page(d, fs, Head(d.frames)), fs)

\* Bufferpool.checkpoint over the copy of _dirty in the order of its iteration
RECURSIVE dp_checkpoint(_, _, _)
dp_checkpoint(d, fs, order) ==
    IF order = <<>> \/ d.error # "none" THEN d
    ELSE dp_checkpoint(dp_evict_page(d, fs, Head(order)), fs, Tail(order))

\* the pages of a set one after the other
RECURSIVE in_turn(_)
in_turn(S) ==
    IF S = {} THEN <<>>
    ELSE <<CHOOSE p \in S : TRUE>> \o in_turn(S \ {CHOOSE p \in S : TRUE})

\* the dirty pages that evict_page writes and deletes, and those at which it
\* raises
evictable(d, fs) == {p \in d.dirty : resident(d, p) /\ ~write_page_raises(fs, p)}

failing(d, fs) == d.dirty \ evictable(d, fs)

\* the orders in which checkpoint can iterate its copy of _dirty, up to the
\* first page at which evict_page raises: any of the failing pages after any
\* of the others (the order among those makes no difference)
Orders(d, fs) ==
    IF failing(d, fs) = {} THEN {in_turn(d.dirty)}
    ELSE {Append(in_turn(before), p) : before \in SUBSET evictable(d, fs), p \in failing(d, fs)}
(***************************************************************************)
(* The client.  Every action is one call of the public API on the table,   *)
(* run to its return.  `hist` records what the calls that returned True    *)
(* wrote: a key that an update or delete call targets without success, or  *)
(* that a transaction that aborts touches, leaves the history.             *)
(***************************************************************************)
NoCall == [op |-> "none", pk |-> 0, cols |-> <<>>, queries |-> <<>>, res |-> FALSE, ts |-> 0]

Call(q, res, ts) ==
    [op |-> q.type, pk |-> q.pk, cols |-> q.cols, queries |-> <<q>>, res |-> res, ts |-> ts]

HistDrop(h, ks) == [k \in DOMAIN h \ ks |-> h[k]]

\* the keys a query names
TargetKeys(q) ==
    {q.pk} \cup (IF q.type = "update" /\ q.cols[key + 1] # None
                 THEN {q.cols[key + 1]} ELSE {})

\* the row an update with columns cols makes of row prev
Overlay(prev, cols) ==
    [i \in 1 .. num_columns |-> IF cols[i] # None THEN cols[i] ELSE prev[i]]

\* the history after query q returned True
HistApply(h, q) ==
    CASE q.type = "insert" -> Put(h, q.pk, <<q.cols>>)
      [] q.type = "update" ->
           IF q.pk \in DOMAIN h /\ q.cols[key + 1] \in {None, q.pk}
              /\ \E i \in DOMAIN q.cols : q.cols[i] # None
           THEN [h EXCEPT ![q.pk] = Append(@, Overlay(@[Len(@)], q.cols))]
           ELSE IF \A i \in DOMAIN q.cols : q.cols[i] = None THEN h
           ELSE HistDrop(h, TargetKeys(q))
      [] q.type = "increment" ->
           IF q.pk \in DOMAIN h
           THEN [h EXCEPT ![q.pk] = Append(@, [@[Len(@)] EXCEPT ![q.cols[1] + 1] = @ + 1])]
           ELSE h
      [] q.type = "delete" -> HistDrop(h, {q.pk})

\* the history after query q returned False
HistFail(h, q) == IF q.type = "insert" THEN h ELSE HistDrop(h, TargetKeys(q))

RECURSIVE HistCommit(_, _)
HistCommit(h, queries) ==
    IF queries = <<>> THEN h ELSE HistCommit(HistApply(h, Head(queries)), Tail(queries))

HistAbort(h, queries) ==
    HistDrop(h, UNION {TargetKeys(queries[i]) : i \in DOMAIN queries})

Init ==
    /\ tbl = NewTable(TRUE)
    /\ twin = NewTable(FALSE)
    /\ disk = [pages |-> <<>>, wal |-> <<>>]
    /\ ref = NewTable(TRUE)
    /\ up = TRUE
    /\ drained = FALSE
    /\ last = NoCall
    /\ clock = 1
    /\ nops = 0
    /\ hist = <<>>
    /\ clean = TRUE
    /\ frame = NewFrame
    /\ thr = [t \in Threads |-> Idle]
    /\ pool = NewPool
    /\ pthr = [t \in Clients |-> Client]
    /\ cat = NewCatalog
    /\ saved = NoFiles
    /\ given = NoneGiven
    /\ trk = NewTracker
    /\ walk = NoWalk
    /\ queued = <<>>
    /\ txn = NoTxn
    /\ other = NewTable(TRUE)
    /\ walf = NoWal
    /\ rw = NewRW
    /\ mt = NewMerging
    /\ dbp = NewDbPool

\* One implicit (single-query) mutating call: Query.insert, update, delete
\* or increment with xact = None
Called(q, r) ==
    /\ tbl' = r.st
    /\ last' = Call(q, r.res, clock)
    /\ hist' = IF r.res THEN HistApply(hist, q) ELSE HistFail(hist, q)

Implicit(q) ==
    /\ nops < MaxOps
    /\ Called(q, call(tbl, q, None, clock))
    /\ clock' = clock + 1
    /\ nops' = nops + 1
    /\ UNCHANGED <<twin, disk, ref, up, drained, clean, aside>>

UpdateCols == {<<None, UpdateVal>>, <<None, None>>} \cup {<<k, None>> : k \in Keys}

Insert(k) == Implicit(StoredQuery("insert", k, <<k, InsertVal>>))
Update(k, cols) == Implicit(StoredQuery("update", k, cols))
Delete(k) == Implicit(StoredQuery("delete", k, <<>>))
Increment(k) == Implicit(StoredQuery("increment", k, <<1>>))

\* The transactions the client builds with add_query: an insert or an
\* update followed by an update
TxnUpdates == {StoredQuery("update", k, <<None, TxnVal>>) : k \in Keys}
TxnQueries == {StoredQuery("insert", k, <<k, InsertVal>>) : k \in Keys} \cup TxnUpdates
Transactions == TxnQueries \X TxnUpdates

\* Transaction.run of an explicit transaction
Ran(queries, r) ==
    /\ tbl' = r.st
    /\ last' = [op |-> "txn", pk |-> 0, cols |-> <<>>, queries |-> queries,
                res |-> r.res, ts |-> clock]
    /\ hist' = IF r.res THEN HistCommit(hist, queries) ELSE HistAbort(hist, queries)
    /\ clean' = (clean /\ r.res)

TxnRun(queries) ==
    /\ nops < MaxOps
    /\ Ran(queries, run(tbl, queries, clock))
    /\ clock' = clock + 1
    /\ nops' = nops + 1
    /\ UNCHANGED <<twin, disk, ref, up, drained, aside>>

\* The merge thread that Table.notify_merge started runs Table.__merge
Merge ==
    /\ nops < MaxOps
    /\ tbl.merge_alive
    /\ tbl' = merge(tbl)
    /\ last' = [NoCall EXCEPT !.op = "merge"]
    /\ clean' = FALSE
    /\ nops' = nops + 1
    /\ UNCHANGED <<twin, disk, ref, up, drained, clock, hist, aside>>

Next ==
    \/ \E k \in Keys : Insert(k)
    \/ \E k \in Keys, cols \in UpdateCols : Update(k, cols)
    \/ \E k \in Keys : Delete(k)
    \/ \E k \in Keys : Increment(k)
    \/ \E queries \in Transactions : TxnRun(queries)
    \/ Merge

Spec == Init /\ [][Next]_vars

(***************************************************************************)
(* The same workload on two tables, one with the background merge and one  *)
(* with merging disabled from the start, then Table.drain_merge.           *)
(***************************************************************************)
MCalled(q, r, t) ==
    /\ tbl' = r.st
    /\ twin' = t.st
    /\ last' = Call(q, r.res, clock)

MCall(q) ==
    /\ nops < MaxMergeOps
    /\ ~drained
    /\ MCalled(q, call(tbl, q, None, clock), call(twin, q, None, clock))
    /\ clock' = clock + 1
    /\ nops' = nops + 1
    /\ UNCHANGED <<disk, ref, up, drained, hist, clean, aside>>

MInsert(k) == MCall(StoredQuery("insert", k, <<k, InsertVal>>))
MIncrement(k) == MCall(StoredQuery("increment", k, <<1>>))

\* Table.__merge on the merge thread, at any time after it was started
MMerge ==
    /\ nops < MaxMergeOps
    /\ ~drained
    /\ tbl.merge_alive
    /\ tbl' = merge(tbl)
    /\ last' = [NoCall EXCEPT !.op = "merge"]
    /\ nops' = nops + 1
    /\ UNCHANGED <<twin, disk, ref, up, drained, clock, hist, clean, aside>>

\* Table.drain_merge, after which the client only reads
MDrain ==
    /\ nops < MaxMergeOps
    /\ ~drained
    /\ tbl' = drain_merge(tbl)
    /\ drained' = TRUE
    /\ last' = [NoCall EXCEPT !.op = "drain"]
    /\ nops' = nops + 1
    /\ UNCHANGED <<twin, disk, ref, up, clock, hist, clean, aside>>

NextMerge ==
    \/ \E k \in MergeKeys : MInsert(k)
    \/ \E k \in MergeKeys : MIncrement(k)
    \/ MMerge
    \/ MDrain

SpecMerge == Init /\ [][NextMerge]_vars

(***************************************************************************)
(* db.py: the process is killed and Database.open runs on the same path.   *)
(* No close() happens, so the directory holds no values.txt, no pickles    *)
(* and no tracker file: PageDirectory.load and TransactionTracker.load     *)
(* return at once and the table starts from an empty page directory over   *)
(* the pages on disk.  The bufferpool holds every page of these workloads  *)
(* in memory, so the pages on disk are those of the last checkpoint.       *)
(***************************************************************************)
\* A merge thread that was started runs; its queue is empty in every state
\* of SpecDB (MaxDbCalls calls resolve no full tail page).
merge_started(st) == IF st.merge_alive THEN merge(st) ELSE st

\* WriteAheadLog.recover and the loop of Database.open: each logged
\* transaction rebuilt by RedoTransaction.to_xact (no tracker) and run under
\* its logged start time; ok = FALSE is the RuntimeError of open().
RECURSIVE replay(_, _)
replayed(r, xacts) ==
    IF ~r.res THEN [st |-> r.st, ok |-> FALSE] ELSE replay(r.st, Tail(xacts))

replay(st, xacts) ==
    IF xacts = <<>> THEN [st |-> st, ok |-> TRUE]
    ELSE replayed(run_queries(st, Head(xacts).queries, Head(xacts).start_time, <<>>), xacts)

\* Database.open on an existing directory
open(d) == replay([NewTable(TRUE) EXCEPT !.pages = d.pages], d.wal)

DbCalled(q, r, f) ==
    /\ tbl' = merge_started(r.st)
    /\ ref' = merge_started(f.st)
    /\ disk' = [disk EXCEPT !.wal = r.st.wal]
    /\ last' = Call(q, r.res, clock)

DbCall(q) ==
    /\ up
    /\ nops < MaxDbOps
    /\ clock <= MaxDbCalls
    /\ DbCalled(q, call(tbl, q, None, clock), call(ref, q, None, clock))
    /\ clock' = clock + 1
    /\ nops' = nops + 1
    /\ UNCHANGED <<twin, up, drained, hist, clean, aside>>

DbInsert(k) == DbCall(StoredQuery("insert", k, <<k, InsertVal>>))
DbUpdate(k) == DbCall(StoredQuery("update", k, <<None, UpdateVal>>))

\* The process is killed after the last call returned: memory is lost
Kill ==
    /\ up
    /\ nops < MaxDbOps
    /\ up' = FALSE
    /\ last' = [NoCall EXCEPT !.op = "kill"]
    /\ nops' = nops + 1
    /\ UNCHANGED <<tbl, twin, disk, ref, drained, clock, hist, clean, aside>>

\* Database.open: replay, then Bufferpool.checkpoint and
\* WriteAheadLog.checkpoint when the log held transactions.  When a replay
\* fails open() raises and the database stays down.
Opened(r) ==
    IF r.ok
    THEN /\ tbl' = merge_started(r.st)
         /\ disk' = IF disk.wal # <<>> THEN [pages |-> r.st.pages, wal |-> <<>>] ELSE disk
         /\ up' = TRUE
    ELSE UNCHANGED <<tbl, disk, up>>

Open ==
    /\ ~up
    /\ nops < MaxDbOps
    /\ Opened(open(disk))
    /\ last' = [NoCall EXCEPT !.op = "open"]
    /\ nops' = nops + 1
    /\ UNCHANGED <<twin, ref, drained, clock, hist, clean, aside>>

NextDB ==
    \/ \E k \in MergeKeys : DbInsert(k)
    \/ \E k \in MergeKeys : DbUpdate(k)
    \/ Kill
    \/ Open

SpecDB == Init /\ [][NextDB]_vars


(***************************************************************************)
(* Threads on one frame: Frame.read and Frame.write, step by step          *)
(***************************************************************************)
LockStep(t, f, pc) ==
    /\ frame' = f
    /\ thr' = [thr EXCEPT ![t].pc = pc]
    /\ UNCHANGED <<tbl, twin, disk, ref, up, drained, last, clock, nops, hist, clean,
                   pool, pthr, cat, saved, given, trk, walk, queued, txn, other, walf, rw, mt, dbp>>

\* Frame.read: acquire_read takes _read_lock and counts the reader ...
BeginRead(t) ==
    /\ thr[t].pc = "idle" /\ thr[t].ops < MaxFrameOps
    /\ rlock_free(frame.read_lock, t)
    /\ LockStep(t, acquire_read_counted(frame, t), "counted")

\* ... then the first reader waits for the exclusive lock
EnterRead(t) ==
    /\ thr[t].pc = "counted"
    /\ frame.num_readers = 1 => rlock_free(frame.exclusive_lock, t)
    /\ LockStep(t, acquire_read_entered(frame, t), "reading")

\* Frame.read leaves its with-block: release_read
EndRead(t) ==
    /\ thr[t].pc = "reading"
    /\ rlock_free(frame.read_lock, t)
    /\ frame' = release_read(frame, t)
    /\ thr' = [thr EXCEPT ![t] = [pc |-> "idle", ops |-> @.ops + 1, val |-> @.val,
                                  raised |-> release_read_raises(frame, t)]]
    /\ UNCHANGED <<tbl, twin, disk, ref, up, drained, last, clock, nops, hist, clean,
                   pool, pthr, cat, saved, given, trk, walk, queued, txn, other, walf, rw, mt, dbp>>

\* Frame.write: acquire_write, then the caller stores into the buffer
BeginWrite(t) ==
    /\ thr[t].pc = "idle" /\ thr[t].ops < MaxFrameOps
    /\ rlock_free(frame.exclusive_lock, t)
    /\ frame' = acquire_write(frame, t)
    /\ thr' = [thr EXCEPT ![t].pc = "writing", ![t].val = frame.data[1] + 1]
    /\ UNCHANGED <<tbl, twin, disk, ref, up, drained, last, clock, nops, hist, clean,
                   pool, pthr, cat, saved, given, trk, walk, queued, txn, other, walf, rw, mt, dbp>>

WriteHalf(t) ==
    /\ thr[t].pc = "writing"
    /\ LockStep(t, [frame EXCEPT !.data[1] = thr[t].val], "half")

WriteRest(t) ==
    /\ thr[t].pc = "half"
    /\ LockStep(t, [frame EXCEPT !.data[2] = thr[t].val], "written")

\* Frame.write leaves its with-block: release_write
EndWrite(t) ==
    /\ thr[t].pc = "written"
    /\ frame' = release_write(frame, t)
    /\ thr' = [thr EXCEPT ![t].pc = "idle", ![t].ops = @ + 1]
    /\ UNCHANGED <<tbl, twin, disk, ref, up, drained, last, clock, nops, hist, clean,
                   pool, pthr, cat, saved, given, trk, walk, queued, txn, other, walf, rw, mt, dbp>>

NextLock ==
    \/ \E t \in Threads : BeginRead(t)
    \/ \E t \in Threads : EnterRead(t)
    \/ \E t \in Threads : EndRead(t)
    \/ \E t \in Threads : BeginWrite(t)
    \/ \E t \in Threads : WriteHalf(t)
    \/ \E t \in Threads : WriteRest(t)
    \/ \E t \in Threads : EndWrite(t)

SpecLock == Init /\ [][NextLock]_vars

(***************************************************************************)
(* Threads on the bufferpool: pin, the frame's write, unpin, fetch,        *)
(* evict_page, checkpoint and close.  A call runs under the pool's RLock   *)
(* and is one step, except where Condition.wait_for gives the lock up.     *)
(***************************************************************************)
\* the threads whose frame has left the pool b while they hold it
orphaned(th, b) ==
    [u \in Clients |->
        IF th[u].pc \in {"held", "marked"} /\ ~resident(b, th[u].page)
        THEN [th[u] EXCEPT !.orphan = TRUE]
        ELSE th[u]]

\* the threads inside Condition.wait_for
waiters(th) == {u \in Clients : th[u].pc \in {"pin_wait", "checkpoint_wait", "close_wait"}}

\* a thread that has left its wait is no longer one of the notified
PoolStep(b, th) ==
    /\ pool' = [b EXCEPT !.notified = @ \cap waiters(th)]
    /\ pthr' = orphaned(th, b)
    /\ UNCHANGED <<tbl, twin, disk, ref, up, drained, last, clock, hist, clean,
                   frame, thr, cat, saved, given, trk, walk, queued, txn, other, walf, rw, mt, dbp>>

PoolCall(b, th) ==
    /\ nops' = nops + 1
    /\ PoolStep(b, th)

PoolMove(b, th) ==
    /\ nops' = nops
    /\ PoolStep(b, th)

\* a thread back outside every call
returned(th, t) == [th EXCEPT ![t] = Client]

\* may thread t start a call
idle(t) == pthr[t].pc = "idle" /\ nops < MaxPoolOps /\ pool.lock = 0

\* Bufferpool.pin from its return statement on: self._frames[page_id]
\* raises KeyError when the page did not get a frame
pin_return(b, t, p) ==
    IF resident(b, p)
    THEN PoolMove(b, [pthr EXCEPT ![t].pc = "held", ![t].page = p])
    ELSE PoolMove(b, returned(pthr, t))

\* Bufferpool.pin of a resident page, of a page the pool has room for, and
\* of a page for which the least recently used frame has to go
PinHit(t, p) ==
    /\ idle(t) /\ resident(pool, p)
    /\ PoolCall(pin_hit(pool, p),
                [pthr EXCEPT ![t].pc = "held", ![t].page = p])

PinMiss(t, p) ==
    /\ idle(t) /\ ~resident(pool, p) /\ has_capacity(pool)
    /\ PoolCall(pin_miss(pool, p),
                [pthr EXCEPT ![t].pc = "held", ![t].page = p])

PinEvict(t, p) ==
    /\ idle(t) /\ ~resident(pool, p) /\ ~has_capacity(pool)
    /\ pool.pins[Head(pool.frames)] = 0
    /\ PoolCall(pin_miss(evict_page(pool, Head(pool.frames)), p),
                [pthr EXCEPT ![t].pc = "held", ![t].page = p, ![t].lru = Head(pool.frames)])

\* _evict_lru finds the least recently used frame pinned and waits
PinWait(t, p) ==
    /\ idle(t) /\ ~resident(pool, p) /\ ~has_capacity(pool)
    /\ pool.pins[Head(pool.frames)] # 0
    /\ PoolCall(pool, [pthr EXCEPT ![t].pc = "pin_wait", ![t].page = p,
                                              ![t].lru = Head(pool.frames)])

\* the wait ends with the pin count at 0, after a notification or when
\* BUFFERPOOL_EVICT_TIMEOUT has passed: evict_page, fetch, pins = 1
PinResume(t) ==
    /\ pthr[t].pc = "pin_wait" /\ pool.lock = 0
    /\ pool.pins[pthr[t].lru] = 0
    /\ IF evict_page_raises(pool, pthr[t].lru)
       THEN PoolMove(pool, returned(pthr, t))
       ELSE pin_return(pin_miss(evict_page(pool, pthr[t].lru), pthr[t].page),
                       t, pthr[t].page)

\* BUFFERPOOL_EVICT_TIMEOUT passes with the frame still pinned: RuntimeError
PinTimeout(t) ==
    /\ pthr[t].pc = "pin_wait" /\ pool.lock = 0
    /\ pool.pins[pthr[t].lru] # 0
    /\ PoolMove(pool, returned(pthr, t))

\* Bufferpool.unpin by the thread that pinned
Unpin(t) ==
    /\ pthr[t].pc = "held" /\ pool.lock = 0
    /\ PoolMove(notify_all(unpin(pool, pthr[t].page), pool.pins[pthr[t].page], waiters(pthr)),
                returned(pthr, t))

\* Frame.write: acquire_write (one writer per frame), mark_dirty ...
MarkDirty(t) ==
    /\ pthr[t].pc = "held" /\ pool.lock = 0
    /\ \A u \in Clients \ {t} :
          ~(pthr[u].pc = "marked" /\ pthr[u].page = pthr[t].page
            /\ ~pthr[u].orphan /\ ~pthr[t].orphan)
    /\ PoolMove(mark_dirty(pool, pthr[t].page), [pthr EXCEPT ![t].pc = "marked"])

\* ... and the caller's store into the frame's bytes, which are no longer
\* the pool's when the frame has been evicted
Store(t, v) ==
    /\ pthr[t].pc = "marked"
    /\ PoolMove(IF pthr[t].orphan
                THEN pool
                ELSE [pool EXCEPT !.data = [p \in PageIds |->
                                              IF p = pthr[t].page THEN v ELSE pool.data[p]]],
                [pthr EXCEPT ![t].pc = "held"])

\* Bufferpool.fetch
Fetch(t, p, k) ==
    /\ idle(t) /\ p + Max(k, 1) - 1 <= MaxPage
    /\ PoolCall(fetch(pool, p, k), pthr)

\* Bufferpool.evict_page
EvictPage(t, p) ==
    /\ idle(t)
    /\ PoolCall(evict_page(pool, p),
                pthr)

\* Bufferpool.checkpoint: a copy of the dirty set, then page by page (in
\* the set's order) wait_for the pin count 0 and evict_page
Checkpoint(t) ==
    /\ idle(t) /\ pool.dirty # {}
    /\ PoolCall([pool EXCEPT !.lock = t],
                [pthr EXCEPT ![t].pc = "checkpoint", ![t].todo = pool.dirty])

checkpoint_page(t, p) ==
    IF evict_page_raises(pool, p)
    THEN PoolMove([pool EXCEPT !.lock = 0], returned(pthr, t))
    ELSE IF pthr[t].todo = {p}
    THEN PoolMove([evict_page(pool, p) EXCEPT !.lock = 0], returned(pthr, t))
    ELSE PoolMove([evict_page(pool, p) EXCEPT !.lock = t],
                  [pthr EXCEPT ![t].pc = "checkpoint", ![t].todo = @ \ {p}])

CheckpointPage(t, p) ==
    /\ pthr[t].pc = "checkpoint" /\ p \in pthr[t].todo
    /\ pool.pins[p] = 0
    /\ checkpoint_page(t, p)

CheckpointWait(t, p) ==
    /\ pthr[t].pc = "checkpoint" /\ p \in pthr[t].todo
    /\ pool.pins[p] # 0
    /\ PoolMove([pool EXCEPT !.lock = 0],
                [pthr EXCEPT ![t].pc = "checkpoint_wait", ![t].lru = p])

\* the wait of checkpoint has no timeout: it ends when the thread has been
\* notified and finds the pin count at 0
CheckpointResume(t) ==
    /\ pthr[t].pc = "checkpoint_wait" /\ pool.lock = 0
    /\ t \in pool.notified
    /\ pool.pins[pthr[t].lru] = 0
    /\ checkpoint_page(t, pthr[t].lru)

\* a notified thread finds the pin count above 0 and waits again
WaitAgain(t) ==
    /\ t \in pool.notified /\ pool.lock = 0
    /\ pool.pins[pthr[t].lru] # 0
    /\ PoolMove(awake(pool, t), pthr)

\* Bufferpool.close: acquire the lock for good, then _evict_all
Close(t) ==
    /\ idle(t)
    /\ PoolCall([pool EXCEPT !.lock = t], [pthr EXCEPT ![t].pc = "closing"])

CloseEvict(t) ==
    /\ pthr[t].pc = "closing" /\ pool.frames # <<>>
    /\ pool.pins[Head(pool.frames)] = 0
    /\ PoolMove(evict_page(pool, Head(pool.frames)), pthr)

CloseWait(t) ==
    /\ pthr[t].pc = "closing" /\ pool.frames # <<>>
    /\ pool.pins[Head(pool.frames)] # 0
    /\ PoolMove([pool EXCEPT !.lock = 0],
                [pthr EXCEPT ![t].pc = "close_wait", ![t].lru = Head(pool.frames)])

CloseResume(t) ==
    /\ pthr[t].pc = "close_wait" /\ pool.lock = 0
    /\ pool.pins[pthr[t].lru] = 0
    /\ IF evict_page_raises(pool, pthr[t].lru)
       THEN PoolMove([pool EXCEPT !.lock = t],
                     [pthr EXCEPT ![t].pc = "closed"])
       ELSE PoolMove([evict_page(pool, pthr[t].lru) EXCEPT !.lock = t],
                     [pthr EXCEPT ![t].pc = "closing"])

CloseTimeout(t) ==
    /\ pthr[t].pc = "close_wait" /\ pool.lock = 0
    /\ pool.pins[pthr[t].lru] # 0
    /\ PoolMove([pool EXCEPT !.lock = t],
                [pthr EXCEPT ![t].pc = "closed"])

CloseDone(t) ==
    /\ pthr[t].pc = "closing" /\ pool.frames = <<>>
    /\ PoolMove(pool, [pthr EXCEPT ![t].pc = "closed"])

\* Bufferpool.release by the thread that closed
Release(t) ==
    /\ pthr[t].pc = "closed"
    /\ PoolMove([pool EXCEPT !.lock = 0], returned(pthr, t))

NextPool ==
    \/ \E t \in Pinners, p \in PageIds : PinHit(t, p)
    \/ \E t \in Pinners, p \in PageIds : PinMiss(t, p)
    \/ \E t \in Pinners, p \in PageIds : PinEvict(t, p)
    \/ \E t \in Pinners, p \in PageIds : PinWait(t, p)
    \/ \E t \in Pinners : PinResume(t)
    \/ \E t \in Pinners : PinTimeout(t)
    \/ \E t \in Pinners : Unpin(t)
    \/ \E t \in Pinners : MarkDirty(t)
    \/ \E t \in Pinners, v \in Bytes : Store(t, v)
    \/ \E t \in Pinners, p \in PageIds, k \in 0 .. MaxPrefetch : Fetch(t, p, k)
    \/ \E t \in Pinners, p \in PageIds : EvictPage(t, p)
    \/ \E t \in Pinners : Checkpoint(t)
    \/ \E t \in Pinners, p \in PageIds : CheckpointPage(t, p)
    \/ \E t \in Pinners, p \in PageIds : CheckpointWait(t, p)
    \/ \E t \in Pinners : Close(t)
    \/ \E t \in Pinners : CloseEvict(t)
    \/ \E t \in Pinners : CloseWait(t)
    \/ \E t \in Pinners : CloseResume(t)
    \/ \E t \in Pinners : CloseTimeout(t)
    \/ \E t \in Pinners : CloseDone(t)
    \/ \E t \in Pinners : Release(t)

SpecPool == Init /\ [][NextPool]_vars

\* A pool in use: every frame taken by the pages 0, 1, .. in this order, page
\* 0 pinned by thread 1, and thread 2 inside pin for the page after the
\* last, waiting in _evict_lru for page 0
WarmPool ==
    [ NewPool EXCEPT !.frames = [i \in 1 .. BUFFERPOOL_MAX_FRAMES |-> i - 1],
                     !.data = [p \in PageIds |->
                                 IF p < BUFFERPOOL_MAX_FRAMES THEN page_on_disk(NewPool.file, p) ELSE 0],
                     !.pins = [p \in PageIds |-> IF p = 0 THEN 1 ELSE 0] ]

WarmClients ==
    [ t \in Clients |->
        IF t = 1 THEN [Client EXCEPT !.pc = "held", !.page = 0]
        ELSE IF t = 2 THEN [Client EXCEPT !.pc = "pin_wait", !.page = MaxPage, !.lru = 0]
        ELSE Client ]

InitWarm ==
    /\ tbl = NewTable(TRUE)
    /\ twin = NewTable(FALSE)
    /\ disk = [pages |-> <<>>, wal |-> <<>>]
    /\ ref = NewTable(TRUE)
    /\ up = TRUE
    /\ drained = FALSE
    /\ last = NoCall
    /\ clock = 1
    /\ nops = 0
    /\ hist = <<>>
    /\ clean = TRUE
    /\ frame = NewFrame
    /\ thr = [t \in Threads |-> Idle]
    /\ pool = WarmPool
    /\ pthr = WarmClients
    /\ cat = NewCatalog
    /\ saved = NoFiles
    /\ given = NoneGiven
    /\ trk = NewTracker
    /\ walk = NoWalk
    /\ queued = <<>>
    /\ txn = NoTxn
    /\ other = NewTable(TRUE)
    /\ walf = NoWal
    /\ rw = NewRW
    /\ mt = NewMerging
    /\ dbp = NewDbPool

SpecPoolWarm == InitWarm /\ [][NextPool]_vars

(***************************************************************************)
(* The client with close and reopen: calls on the table, the merge thread, *)
(* Database.close and Database.open on the same path.                      *)
(***************************************************************************)
MaxCloseOps == 4     \* calls, merges, closes and opens per behaviour of SpecClose

CloseCalled(q, r) ==
    /\ tbl' = r.st
    /\ given' = handed(given, tbl, r.st)
    /\ last' = Call(q, r.res, clock)

CloseCall(q) ==
    /\ up
    /\ nops < MaxCloseOps
    /\ CloseCalled(q, call(tbl, q, None, clock))
    /\ clock' = clock + 1
    /\ nops' = nops + 1
    /\ UNCHANGED <<twin, disk, ref, up, drained, hist, clean, frame, thr, pool, pthr, cat, saved, trk, walk, queued, txn, other, walf, rw, mt, dbp>>

CloseInsert(k) == CloseCall(StoredQuery("insert", k, <<k, InsertVal>>))
CloseUpdate(k) == CloseCall(StoredQuery("update", k, <<None, UpdateVal>>))

\* The merge thread that Table.notify_merge started runs Table.__merge
CloseMerge ==
    /\ up
    /\ nops < MaxCloseOps
    /\ tbl.merge_alive
    /\ tbl' = merge(tbl)
    /\ given' = handed(given, tbl, merge(tbl))
    /\ last' = [NoCall EXCEPT !.op = "merge"]
    /\ nops' = nops + 1
    /\ UNCHANGED <<twin, disk, ref, up, drained, clock, hist, clean, frame, thr, pool, pthr,
                   cat, saved, trk, walk, queued, txn, other, walf, rw, mt, dbp>>

\* Database.close
DbClose ==
    /\ up
    /\ nops < MaxCloseOps
    /\ saved' = close(tbl)
    /\ up' = FALSE
    /\ last' = [NoCall EXCEPT !.op = "close"]
    /\ nops' = nops + 1
    /\ UNCHANGED <<tbl, twin, disk, ref, drained, clock, hist, clean, frame, thr, pool, pthr,
                   cat, given, trk, walk, queued, txn, other, walf, rw, mt, dbp>>

\* Database.open on the closed database; when the table cannot be built
\* open() raises and the database stays down
Reopened(r) ==
    IF r.ok
    THEN tbl' = r.st /\ up' = TRUE
    ELSE UNCHANGED <<tbl, up>>

DbReopen ==
    /\ ~up
    /\ nops < MaxCloseOps
    /\ Reopened(reopen(saved))
    /\ last' = [NoCall EXCEPT !.op = "open"]
    /\ nops' = nops + 1
    /\ UNCHANGED <<twin, disk, ref, drained, clock, hist, clean, frame, thr, pool, pthr,
                   cat, saved, given, trk, walk, queued, txn, other, walf, rw, mt, dbp>>

NextClose ==
    \/ \E k \in MergeKeys : CloseInsert(k)
    \/ \E k \in MergeKeys : CloseUpdate(k)
    \/ CloseMerge
    \/ DbClose
    \/ DbReopen

SpecClose == Init /\ [][NextClose]_vars

(***************************************************************************)
(* The client of the table registry: create_table, drop_table, close and   *)
(* open on the same path.                                                  *)
(***************************************************************************)
MaxCatOps == 5        \* calls per behaviour of SpecCatalog
MaxColumns == 6       \* the largest num_columns (raw column 10 has two digits)
TableNames == { <<"G">>, <<"G", "r">>, <<"a", "/", "b">> }
ColumnCounts == {1, MaxColumns}

CatStep(c, op) ==
    /\ nops < MaxCatOps
    /\ cat' = c
    /\ last' = [NoCall EXCEPT !.op = op]
    /\ nops' = nops + 1
    /\ UNCHANGED <<tbl, twin, disk, ref, up, drained, clock, hist, clean,
                   frame, thr, pool, pthr, saved, given, trk, walk, queued, txn, other, walf, rw, mt, dbp>>

CreateTable(name, ncols, key_index) ==
    /\ cat.up
    /\ CatStep(create_table(cat, name, ncols, key_index), "create_table")

DropTable(name) ==
    /\ cat.up
    /\ CatStep(drop_table(cat, name), "drop_table")

CatClose ==
    /\ cat.up
    /\ CatStep(db_close(cat), "close")

CatOpen ==
    /\ ~cat.up /\ ~cat.raised
    /\ ~db_open_raises(cat)
    /\ CatStep(db_open(cat), "open")

CatOpenRaises ==
    /\ ~cat.up /\ ~cat.raised
    /\ db_open_raises(cat)
    /\ \E tables \in SUBSET {t \in table_dirs(cat.fs) : ~init_table_raises(cat.fs, t)} :
          CatStep(db_open_raised(cat, tables), "open")

NextCatalog ==
    \/ \E name \in TableNames, n \in ColumnCounts, k \in 0 .. MaxColumns :
          CreateTable(name, n, k)
    \/ \E name \in TableNames : DropTable(name)
    \/ CatClose
    \/ CatOpen
    \/ CatOpenRaises

SpecCatalog == Init /\ [][NextCatalog]_vars

(***************************************************************************)
(* Threads on the transaction tracker: mark_committed, mark_aborted,       *)
(* is_committed, is_aborted and is_maybe_pending, step by step.            *)
(***************************************************************************)
TrkStep(aborted, l, th) ==
    /\ trk' = [aborted |-> aborted, lock |-> l, th |-> th]
    /\ UNCHANGED <<tbl, twin, disk, ref, up, drained, last, clock, hist, clean,
                   frame, thr, pool, pthr, cat, saved, given, walk, queued, txn, other, walf, rw, mt, dbp>>

\* the thread's record when it makes call op for timestamp
called(t, op, timestamp, pc) ==
    [trk.th EXCEPT ![t] = [pc |-> pc, op |-> op, timestamp |-> timestamp,
                           was |-> timestamp \in DOMAIN trk.aborted, res |-> "none"]]

\* mark_committed / mark_aborted: self._lock.write() enters acquire_write,
\* which counts the writer as waiting and goes on when no reader and no
\* writer is active (get_ident() is never the writer here: the tracker's
\* methods do not nest)
TrkMark(t, op, timestamp) ==
    /\ trk.th[t].pc = "idle" /\ nops < MaxTrackerOps
    /\ trk.lock.write_thread_id # t
    /\ IF wp_write_ready(trk.lock)
       THEN TrkStep(trk.aborted,
                    wp_acquire_write(wp_acquire_write_waiting(trk.lock), t),
                    called(t, op, timestamp, "check"))
       ELSE TrkStep(trk.aborted, wp_acquire_write_waiting(trk.lock),
                    called(t, op, timestamp, "wait_write"))
    /\ nops' = nops + 1

TrkWriteWake(t) ==
    /\ trk.th[t].pc = "wait_write"
    /\ wp_write_ready(trk.lock)
    /\ TrkStep(trk.aborted, wp_acquire_write(trk.lock, t),
               [trk.th EXCEPT ![t].pc = "check"])
    /\ nops' = nops

\* if timestamp in self._aborted: raise ValueError
TrkCheck(t) ==
    /\ trk.th[t].pc = "check"
    /\ TrkStep(trk.aborted, trk.lock,
               IF in_tracker(trk.aborted, trk.th[t].timestamp)
               THEN [trk.th EXCEPT ![t].pc = "release_write", ![t].res = "raised"]
               ELSE [trk.th EXCEPT ![t].pc = "store"])
    /\ nops' = nops

\* self._aborted[timestamp] = False / True
TrkStore(t) ==
    /\ trk.th[t].pc = "store"
    /\ TrkStep(Put(trk.aborted, trk.th[t].timestamp, trk.th[t].op = "mark_aborted"),
               trk.lock,
               [trk.th EXCEPT ![t].pc = "release_write", ![t].res = "ok"])
    /\ nops' = nops

\* the end of the with block: release_write
TrkReleaseWrite(t) ==
    /\ trk.th[t].pc = "release_write"
    /\ TrkStep(trk.aborted, wp_release_write(trk.lock), [trk.th EXCEPT ![t].pc = "idle"])
    /\ nops' = nops

\* is_committed / is_aborted / is_maybe_pending: self._lock.read() enters
\* acquire_read, which goes on when no writer waits or is active
TrkAsk(t, op, timestamp) ==
    /\ trk.th[t].pc = "idle" /\ nops < MaxTrackerOps
    /\ IF wp_read_ready(trk.lock)
       THEN TrkStep(trk.aborted, wp_acquire_read(trk.lock), called(t, op, timestamp, "read"))
       ELSE TrkStep(trk.aborted, trk.lock, called(t, op, timestamp, "wait_read"))
    /\ nops' = nops + 1

TrkReadWake(t) ==
    /\ trk.th[t].pc = "wait_read"
    /\ wp_read_ready(trk.lock)
    /\ TrkStep(trk.aborted, wp_acquire_read(trk.lock), [trk.th EXCEPT ![t].pc = "read"])
    /\ nops' = nops

\* the return value, computed under the read lock
answer(aborted, op, timestamp) ==
    CASE op = "is_committed" -> is_committed(aborted, timestamp)
      [] op = "is_aborted" -> is_aborted(aborted, timestamp)
      [] op = "is_maybe_pending" -> is_maybe_pending(aborted, timestamp)

TrkAnswer(t) ==
    /\ trk.th[t].pc = "read"
    /\ TrkStep(trk.aborted, trk.lock,
               [trk.th EXCEPT ![t].pc = "release_read",
                              ![t].res = IF answer(trk.aborted, trk.th[t].op, trk.th[t].timestamp)
                                         THEN "True" ELSE "False"])
    /\ nops' = nops

TrkReleaseRead(t) ==
    /\ trk.th[t].pc = "release_read"
    /\ TrkStep(trk.aborted, wp_release_read(trk.lock), [trk.th EXCEPT ![t].pc = "idle"])
    /\ nops' = nops

Marks == {"mark_committed", "mark_aborted"}
Asks == {"is_committed", "is_aborted", "is_maybe_pending"}

NextTracker ==
    \/ \E t \in Trackers, op \in Marks, timestamp \in Timestamps : TrkMark(t, op, timestamp)
    \/ \E t \in Trackers : TrkWriteWake(t)
    \/ \E t \in Trackers : TrkCheck(t)
    \/ \E t \in Trackers : TrkStore(t)
    \/ \E t \in Trackers : TrkReleaseWrite(t)
    \/ \E t \in Trackers, op \in Asks, timestamp \in Timestamps : TrkAsk(t, op, timestamp)
    \/ \E t \in Trackers : TrkReadWake(t)
    \/ \E t \in Trackers : TrkAnswer(t)
    \/ \E t \in Trackers : TrkReleaseRead(t)

SpecTracker == Init /\ [][NextTracker]_vars

(***************************************************************************)
(* SpecWalk: the client's calls, the merge thread and one reader whose     *)
(* get_record_version is taken in two steps: __get_base_record (table.py   *)
(* 451, with get_base_record_location under the read lock), and the rest   *)
(* from the test of page_directory._tps[base_rid] (table.py 456-521) on.   *)
(* The merge thread's Table.__merge runs between any two of these steps.   *)
(***************************************************************************)
WCalled(q, r) ==
    /\ tbl' = r.st
    /\ last' = Call(q, r.res, clock)

WCall(q) ==
    /\ nops < MaxWalkOps
    /\ walk.pc = "idle"
    /\ WCalled(q, call(tbl, q, None, clock))
    /\ clock' = clock + 1
    /\ nops' = nops + 1
    /\ UNCHANGED <<twin, disk, ref, up, drained, hist, clean, frame, thr, pool, pthr,
                   cat, saved, given, trk, walk, queued, txn, other, walf, rw, mt, dbp>>

WInsert(k) == WCall([type |-> "insert", pk |-> k, cols |-> <<k, InsertVal>>])
WIncrement(k) == WCall([type |-> "increment", pk |-> k, cols |-> <<1>>])

\* Table.__merge on the merge thread
WMerge ==
    /\ nops < MaxWalkOps
    /\ tbl.merge_alive
    /\ tbl' = merge(tbl)
    /\ last' = [NoCall EXCEPT !.op = "merge"]
    /\ nops' = nops + 1
    /\ UNCHANGED <<twin, disk, ref, up, drained, clock, hist, clean, frame, thr, pool, pthr,
                   cat, saved, given, trk, walk, queued, txn, other, walf, rw, mt, dbp>>

\* base_rec = self.__get_base_record(base_rid)
located(base_rid, l, rec) ==
    [ NoWalk EXCEPT !.pc = "located", !.base_rid = base_rid, !.tps = l.tps,
                    !.locs = l.locs, !.rec = rec ]

WalkLocate(base_rid) ==
    /\ nops < MaxWalkOps
    /\ walk.pc = "idle"
    /\ base_rid \in base_rids(tbl)
    /\ walk' = located(base_rid, get_base_record_location(tbl, base_rid),
                       get_base_record(tbl, base_rid))
    /\ nops' = nops + 1
    /\ UNCHANGED <<tbl, twin, disk, ref, up, drained, last, clock, hist, clean,
                   frame, thr, pool, pthr, cat, saved, given, trk, queued, txn, other, walf, rw, mt, dbp>>

\* ... latest_tid >= self.page_directory._tps[base_rid] and what follows
WalkDecide ==
    /\ walk.pc = "located"
    /\ walk' = [walk EXCEPT !.pc = "done",
                            !.used = tbl.tps[walk.base_rid],
                            !.now = tbl.offsets[walk.base_rid],
                            !.res = version_of_base(tbl, walk.base_rid, walk.rec, 0)]
    /\ UNCHANGED <<tbl, twin, disk, ref, up, drained, last, clock, nops, hist, clean,
                   frame, thr, pool, pthr, cat, saved, given, trk, queued, txn, other, walf, rw, mt, dbp>>

NextWalk ==
    \/ \E k \in MergeKeys : WInsert(k)
    \/ \E k \in MergeKeys : WIncrement(k)
    \/ WMerge
    \/ \E base_rid \in BASE_RID_BEGIN .. (BASE_RID_BEGIN + 1) : WalkLocate(base_rid)
    \/ WalkDecide

SpecWalk == Init /\ [][NextWalk]_vars

(***************************************************************************)
(* SpecQueue: calls of the main thread, the queries of a worker's          *)
(* transaction one at a time (Transaction.run), and Table.__merge.         *)
(* `queued` collects what the calls append to the merge queue.             *)
(***************************************************************************)
\* the entries a call has appended to the merge queue
appended(before, after) == SubSeq(after, Len(before) + 1, Len(after))

QStep(st) ==
    /\ tbl' = st
    /\ queued' = queued \o appended(tbl.merge_queue, st.merge_queue)

QCalled(q, r) ==
    /\ QStep(r.st)
    /\ last' = Call(q, r.res, clock)

QCall(q) ==
    /\ nops < MaxQueueOps
    /\ QCalled(q, call(tbl, q, None, clock))
    /\ clock' = clock + 1
    /\ nops' = nops + 1
    /\ UNCHANGED <<twin, disk, ref, up, drained, hist, clean, frame, thr, pool, pthr,
                   cat, saved, given, trk, walk, txn, other, walf, rw, mt, dbp>>

\* the loader: the next key
QInsert ==
    /\ tbl.unused_base_rid - BASE_RID_BEGIN < MaxQueueKeys
    /\ QCall([type |-> "insert", pk |-> tbl.unused_base_rid - BASE_RID_BEGIN + 1,
              cols |-> <<tbl.unused_base_rid - BASE_RID_BEGIN + 1, InsertVal>>])

QIncrement(k) == QCall([type |-> "increment", pk |-> k, cols |-> <<1>>])

\* Transaction.run from the call of a query on: abort when it returns
\* False, commit after the last one
QRan(start_time, todo, rids, r) ==
    IF ~r.res
    THEN /\ QStep(abort(r.st, start_time, rids).st)
         /\ txn' = [NoTxn EXCEPT !.pc = "done", !.start_time = start_time]
    ELSE IF Len(todo) = 1
    THEN /\ QStep(commit(r.st, start_time, rids \o r.rids).st)
         /\ txn' = [NoTxn EXCEPT !.pc = "done", !.start_time = start_time,
                                 !.res = commit(r.st, start_time, rids \o r.rids).ok]
    ELSE /\ QStep(r.st)
         /\ txn' = [pc |-> "open", start_time |-> start_time, todo |-> Tail(todo),
                    rids |-> rids \o r.rids, res |-> FALSE]

QRun(start_time, todo, rids) ==
    /\ QRan(start_time, todo, rids, call(tbl, Head(todo), start_time, start_time))
    /\ last' = [op |-> "txn", pk |-> 0, cols |-> <<>>, queries |-> todo,
                res |-> FALSE, ts |-> start_time]
    /\ nops' = nops + 1
    /\ UNCHANGED <<twin, disk, ref, up, drained, hist, clean, frame, thr, pool, pthr,
                   cat, saved, given, trk, walk, other, walf, rw, mt, dbp>>

\* the worker's transaction: an update of key 1 and an update of key k
QTxn(k) ==
    << [type |-> "update", pk |-> 1, cols |-> <<None, TxnVal>>],
       [type |-> "update", pk |-> k, cols |-> <<None, TxnVal>>] >>

\* Transaction.run: start_time = time_ns() and the first query
QBegin(k) ==
    /\ nops < MaxQueueOps
    /\ txn.pc = "none"
    /\ QRun(clock, QTxn(k), <<>>)
    /\ clock' = clock + 1

\* ... the next query
QQuery ==
    /\ txn.pc = "open"
    /\ QRun(txn.start_time, txn.todo, txn.rids)
    /\ clock' = clock

\* Table.__merge on the merge thread
QMerge ==
    /\ nops < MaxQueueOps
    /\ tbl.merge_alive
    /\ tbl' = merge(tbl)
    /\ last' = [NoCall EXCEPT !.op = "merge"]
    /\ nops' = nops + 1
    /\ UNCHANGED <<twin, disk, ref, up, drained, clock, hist, clean, frame, thr, pool, pthr,
                   cat, saved, given, trk, walk, queued, txn, other, walf, rw, mt, dbp>>

NextQueue ==
    \/ QInsert
    \/ \E k \in IncKeys : QIncrement(k)
    \/ \E k \in {2, MaxQueueKeys + 1} : QBegin(k)
    \/ QQuery
    \/ QMerge

SpecQueue == Init /\ [][NextQueue]_vars

(***************************************************************************)
(* SpecTwo: the tables A (tbl) and B (other) of one database.  The calls   *)
(* and the worker's transaction of SpecQueue run on A; B has a loader and  *)
(* a client of its own; a second worker runs a transaction that updates    *)
(* key 1 in both tables, from start to end.  The tracker is the one in     *)
(* tbl; B is read and written with it.  B's loader and client have done    *)
(* their calls before A's begin.                                           *)
(***************************************************************************)
Tables == [A |-> tbl, B |-> share(other, tbl.aborted)]

OCalled(q, r) ==
    /\ other' = r.st
    /\ tbl' = share(tbl, r.st.aborted)
    /\ last' = Call(q, r.res, clock)

\* B is loaded and updated before A is used
OCall(q) ==
    /\ nops < MaxTwoOps
    /\ tbl.unused_base_rid = BASE_RID_BEGIN
    /\ OCalled(q, call(share(other, tbl.aborted), q, None, clock))
    /\ clock' = clock + 1
    /\ nops' = nops + 1
    /\ UNCHANGED <<twin, disk, ref, up, drained, hist, clean, frame, thr, pool, pthr,
                   cat, saved, given, trk, walk, queued, txn, walf, rw, mt, dbp>>

OInsert ==
    /\ other.unused_base_rid - BASE_RID_BEGIN < MaxOtherKeys
    /\ OCall([type |-> "insert", pk |-> other.unused_base_rid - BASE_RID_BEGIN + 1,
              cols |-> <<other.unused_base_rid - BASE_RID_BEGIN + 1, InsertVal>>])

OIncrement == OCall([type |-> "increment", pk |-> 1, cols |-> <<1>>])

\* x.add_query(qa.update, A, 1, None, v); x.add_query(qb.update, B, 1, None, v)
CrossQueries ==
    << [table |-> "A", q |-> [type |-> "update", pk |-> 1, cols |-> <<None, TxnVal>>]],
       [table |-> "B", q |-> [type |-> "update", pk |-> 1, cols |-> <<None, TxnVal>>]] >>

Crossed(r) ==
    /\ QStep(r.tabs.A)
    /\ other' = r.tabs.B
    /\ last' = [op |-> "cross", pk |-> 0, cols |-> <<>>, queries |-> <<>>,
                res |-> r.res, ts |-> clock]

\* Transaction.run of the transaction over both tables
Cross ==
    /\ nops < MaxTwoOps
    /\ last.op # "cross"
    /\ Crossed(run_tables(Tables, pagedirs(CrossQueries), CrossQueries, clock, <<>>))
    /\ clock' = clock + 1
    /\ nops' = nops + 1
    /\ UNCHANGED <<twin, disk, ref, up, drained, hist, clean, frame, thr, pool, pthr,
                   cat, saved, given, trk, walk, txn, walf, rw, mt, dbp>>

\* the calls and the worker of SpecQueue on table A
AInsert == nops < MaxTwoOps /\ QInsert
AIncrement == nops < MaxTwoOps /\ tbl.unused_base_rid > BASE_RID_BEGIN /\ QIncrement(1)
ABegin == nops < MaxTwoOps /\ QBegin(2)
AQuery == nops < MaxTwoOps /\ QQuery

NextTwo ==
    \/ OInsert
    \/ OIncrement
    \/ AInsert
    \/ AIncrement
    \/ ABegin
    \/ AQuery
    \/ Cross

SpecTwo == Init /\ [][NextTwo]_vars

(***************************************************************************)
(* SpecWal: transactions are logged to an empty WAL, one after the other,  *)
(* and WriteAheadLog.recover reads the file back.  The tables are "T" and  *)
(* "é" (code points 84 and 233), of num_columns columns.                   *)
(***************************************************************************)
WalTables == {<<84>>, <<233>>}

WalArgs(type) ==
    IF type = INSERT THEN {<<1, 0 - WalVal>>}
    ELSE IF type = UPDATE
    THEN {<<1>> \o cols : cols \in {<<None, None>>, <<None, WalVal>>, <<WalVal, None>>,
                                    <<WalVal, 0 - WalVal>>}}
    ELSE IF type = INCREMENT THEN {<<1, 1>>}
    ELSE {<<0 - WalVal>>}

WalQueries ==
    {[type |-> type, table |-> table, args |-> args] :
        type \in {INSERT, UPDATE, INCREMENT, DELETE}, table \in WalTables,
        args \in UNION {WalArgs(t) : t \in {INSERT, UPDATE, INCREMENT, DELETE}}}

WalXacts ==
    {[start_time |-> start_time, queries |-> queries] :
        start_time \in 1 .. MaxWalTime,
        queries \in UNION {[1 .. n -> {q \in WalQueries : q.args \in WalArgs(q.type)}] :
                              n \in 0 .. MaxWalQueries}}

\* WriteAheadLog.log: the serialized transaction is appended; an exception
\* of the serializer leaves the file as it is
Logged(x, w) ==
    IF w.exc THEN UNCHANGED walf
    ELSE walf' = [walf EXCEPT !.file = @ \o w.buf, !.logged = Append(@, x)]

WalLog(x) ==
    /\ walf.pc = "log"
    /\ Len(walf.logged) < MaxWalXacts
    /\ \A i \in DOMAIN walf.logged : walf.logged[i].start_time < x.start_time
    /\ Logged(x, serialize(x))
    /\ UNCHANGED <<tbl, twin, disk, ref, up, drained, last, clock, nops, hist, clean,
                   frame, thr, pool, pthr, cat, saved, given, trk, walk, queued, txn, other, rw, mt, dbp>>

\* WriteAheadLog.recover
WalRecover ==
    /\ walf.pc = "log"
    /\ walf' = [walf EXCEPT !.res = recover(walf.file, WalTables), !.pc = "recovered"]
    /\ UNCHANGED <<tbl, twin, disk, ref, up, drained, last, clock, nops, hist, clean,
                   frame, thr, pool, pthr, cat, saved, given, trk, walk, queued, txn, other, rw, mt, dbp>>

NextWal ==
    \/ \E x \in WalXacts : WalLog(x)
    \/ WalRecover

SpecWal == Init /\ [][NextWal]_vars

(***************************************************************************)
(* SpecRW: threads on one WritePreferringRWLock, through acquire_read,     *)
(* release_read, acquire_write, release_write and the scoped helpers       *)
(* ReadersWriterLock.read and ReadersWriterLock.write.  A method runs      *)
(* under the mutex: it is one step, or two around its wait.                *)
(***************************************************************************)
RwStep(l, mutex, calls, th) ==
    /\ rw' = [lock |-> l, mutex |-> mutex, timeout |-> rw.timeout, calls |-> calls, th |-> th]
    /\ UNCHANGED <<tbl, twin, disk, ref, up, drained, last, clock, nops, hist, clean,
                   frame, thr, pool, pthr, cat, saved, given, trk, walk, queued, txn,
                   other, walf, mt, dbp>>

\* the lock the else branch of getDefaultRWLock builds, before any thread
\* has used it
RwBuild(timeout) ==
    /\ rw = NewRW
    /\ rw' = BuiltRW(timeout)
    /\ UNCHANGED <<tbl, twin, disk, ref, up, drained, last, clock, nops, hist, clean,
                   frame, thr, pool, pthr, cat, saved, given, trk, walk, queued, txn,
                   other, walf, mt, dbp>>

\* acquire_read, directly or as the entry of "with lock.read()".  When the
\* acquisition fails the helper raises inside its try block, and its finally
\* clause runs release_read
RwAcquireRead(t, scoped) ==
    /\ rw.th[t].pc = "idle" /\ rw.th[t].reads = 0 /\ rw.th[t].writes = 0
    /\ rw.calls < MaxRwCalls
    /\ rlock_free(rw.mutex, t)
    /\ IF wp_read_ready(rw.lock)
       THEN RwStep(wp_acquire_read(rw.lock), rw.mutex, rw.calls + 1,
                   [rw.th EXCEPT ![t].reads = 1, ![t].res = "True"])
       ELSE IF wait_for_expired(rw.timeout)
       THEN IF scoped
            THEN RwStep(wp_release_read(rw.lock), rw.mutex, rw.calls + 1,
                        [rw.th EXCEPT ![t].res = "raised"])
            ELSE RwStep(rw.lock, rw.mutex, rw.calls + 1, [rw.th EXCEPT ![t].res = "False"])
       ELSE RwStep(rw.lock, RLock, rw.calls + 1,
                   [rw.th EXCEPT ![t].pc = "wait_read", ![t].saved = rw.mutex.count + 1])

\* the wait of acquire_read ends: the predicate holds and the mutex is free
RwReadWake(t) ==
    /\ rw.th[t].pc = "wait_read"
    /\ wp_read_ready(rw.lock)
    /\ rw.mutex.owner = 0
    /\ RwStep(wp_acquire_read(rw.lock), rlock_restored(rw.th[t].saved, t), rw.calls,
              [rw.th EXCEPT ![t].pc = "idle", ![t].reads = 1, ![t].saved = 0,
                            ![t].res = "True"])

\* release_read, directly or as the exit of "with lock.read()"
RwReleaseRead(t) ==
    /\ rw.th[t].pc = "idle" /\ rw.th[t].reads = 1
    /\ rlock_free(rw.mutex, t)
    /\ RwStep(wp_release_read(rw.lock), rw.mutex, rw.calls,
              [rw.th EXCEPT ![t].reads = 0])

\* acquire_write, directly or as the entry of "with lock.write()".  The
\* branch of the writer itself returns with the mutex still acquired
RwAcquireWrite(t, scoped) ==
    /\ rw.th[t].pc = "idle" /\ rw.th[t].reads = 0 /\ rw.th[t].writes < MaxDepth
    /\ rw.calls < MaxRwCalls
    /\ rlock_free(rw.mutex, t)
    /\ IF rw.lock.write_thread_id = t
       THEN RwStep(wp_reenter(rw.lock), rlock_acquire(rw.mutex, t), rw.calls + 1,
                   [rw.th EXCEPT ![t].writes = @ + 1, ![t].res = "True"])
       ELSE IF wp_write_ready(rw.lock)
       THEN RwStep(wp_acquire_write(wp_acquire_write_waiting(rw.lock), t), rw.mutex,
                   rw.calls + 1,
                   [rw.th EXCEPT ![t].writes = @ + 1, ![t].res = "True"])
       ELSE IF wait_for_expired(rw.timeout)
       THEN IF scoped
            THEN RwStep(wp_release_write(rw.lock), rw.mutex, rw.calls + 1,
                        [rw.th EXCEPT ![t].res = "raised"])
            ELSE RwStep(rw.lock, rw.mutex, rw.calls + 1, [rw.th EXCEPT ![t].res = "False"])
       ELSE RwStep(wp_acquire_write_waiting(rw.lock), RLock, rw.calls + 1,
                   [rw.th EXCEPT ![t].pc = "wait_write", ![t].saved = rw.mutex.count + 1])

\* the wait of acquire_write ends
RwWriteWake(t) ==
    /\ rw.th[t].pc = "wait_write"
    /\ wp_write_ready(rw.lock)
    /\ rw.mutex.owner = 0
    /\ RwStep(wp_acquire_write(rw.lock, t), rlock_restored(rw.th[t].saved, t), rw.calls,
              [rw.th EXCEPT ![t].pc = "idle", ![t].writes = @ + 1, ![t].saved = 0,
                            ![t].res = "True"])

\* release_write, directly or as the exit of "with lock.write()"
RwReleaseWrite(t) ==
    /\ rw.th[t].pc = "idle" /\ rw.th[t].writes > 0
    /\ rlock_free(rw.mutex, t)
    /\ RwStep(wp_release_write(rw.lock), rw.mutex, rw.calls,
              [rw.th EXCEPT ![t].writes = @ - 1])

NextRW ==
    \/ RwBuild(<<BUFFERPOOL_LOCK_TIMEOUT>>)
    \/ \E t \in RwThreads, scoped \in BOOLEAN : RwAcquireRead(t, scoped)
    \/ \E t \in RwThreads : RwReadWake(t)
    \/ \E t \in RwThreads : RwReleaseRead(t)
    \/ \E t \in RwThreads, scoped \in BOOLEAN : RwAcquireWrite(t, scoped)
    \/ \E t \in RwThreads : RwWriteWake(t)
    \/ \E t \in RwThreads : RwReleaseWrite(t)

SpecRW == Init /\ [][NextRW]_vars

(***************************************************************************)
(* SpecWake: three threads on the bufferpool through pin, the frame's      *)
(* write, unpin and checkpoint, with the waits of _evict_lru and           *)
(* checkpoint.  A notified waiter runs, a running checkpoint goes on, and  *)
(* every thread that holds a pin gives it up in the end (Bufferpool.read   *)
(* and Bufferpool.write unpin in a finally clause); the eviction timeout   *)
(* may pass or not.                                                        *)
(***************************************************************************)
\* The warm pool with page 0 held by the threads 1 and 3 at pin count 1: the
\* second of them waited in _evict_lru while the first fetched the page, and
\* pin set the count of the fetched page to 1
WakeClients == [WarmClients EXCEPT ![3] = [Client EXCEPT !.pc = "held", !.page = 0]]

InitWake ==
    /\ tbl = NewTable(TRUE)
    /\ twin = NewTable(FALSE)
    /\ disk = [pages |-> <<>>, wal |-> <<>>]
    /\ ref = NewTable(TRUE)
    /\ up = TRUE
    /\ drained = FALSE
    /\ last = NoCall
    /\ clock = 1
    /\ nops = 0
    /\ hist = <<>>
    /\ clean = TRUE
    /\ frame = NewFrame
    /\ thr = [t \in Threads |-> Idle]
    /\ pool = WarmPool
    /\ pthr = WakeClients
    /\ cat = NewCatalog
    /\ saved = NoFiles
    /\ given = NoneGiven
    /\ trk = NewTracker
    /\ walk = NoWalk
    /\ queued = <<>>
    /\ txn = NoTxn
    /\ other = NewTable(TRUE)
    /\ walf = NoWal
    /\ rw = NewRW
    /\ mt = NewMerging
    /\ dbp = NewDbPool

\* the wait of thread t ends because it was notified
Woken(t) ==
    /\ t \in pool.notified
    /\ PinResume(t) \/ CheckpointResume(t)

\* thread t ends the store it has begun
Stores(t) == \E v \in Bytes : Store(t, v)

\* a running checkpoint goes on
Flushes(t) == \E p \in PageIds : CheckpointPage(t, p) \/ CheckpointWait(t, p)

MaxWakeOps == 2     \* calls of pin and checkpoint per behaviour of SpecWake

WakeHit(t, p) == nops < MaxWakeOps /\ PinHit(t, p)

WakeMiss(t, p) == nops < MaxWakeOps /\ PinMiss(t, p)

WakeEvict(t, p) == nops < MaxWakeOps /\ PinEvict(t, p)

WakeWait(t, p) == nops < MaxWakeOps /\ PinWait(t, p)

WakeCheckpoint(t) == nops < MaxWakeOps /\ Checkpoint(t)

NextWake ==
    \/ \E t \in Clients, p \in PageIds : WakeHit(t, p)
    \/ \E t \in Clients, p \in PageIds : WakeMiss(t, p)
    \/ \E t \in Clients, p \in PageIds : WakeEvict(t, p)
    \/ \E t \in Clients, p \in PageIds : WakeWait(t, p)
    \/ \E t \in Clients : PinResume(t)
    \/ \E t \in Clients : PinTimeout(t)
    \/ \E t \in Clients : Unpin(t)
    \/ \E t \in Clients : MarkDirty(t)
    \/ \E t \in Clients, v \in Bytes : Store(t, v)
    \/ \E t \in Clients : WakeCheckpoint(t)
    \/ \E t \in Clients, p \in PageIds : CheckpointPage(t, p)
    \/ \E t \in Clients, p \in PageIds : CheckpointWait(t, p)
    \/ \E t \in Clients : CheckpointResume(t)
    \/ \E t \in Clients : WaitAgain(t)

SpecWake ==
    /\ InitWake
    /\ [][NextWake]_vars
    /\ \A t \in Clients : WF_vars(Woken(t))
    /\ \A t \in Clients : WF_vars(Stores(t))
    /\ \A t \in Clients : SF_vars(Unpin(t))
    /\ \A t \in Clients : WF_vars(Flushes(t))

(***************************************************************************)
(* SpecPins: three threads that pin and unpin pages of the warm pool, so   *)
(* that several of them wait in _evict_lru for the same pinned page.       *)
(***************************************************************************)
NextPins ==
    \/ \E t \in Clients, p \in PageIds : PinHit(t, p)
    \/ \E t \in Clients, p \in PageIds : PinMiss(t, p)
    \/ \E t \in Clients, p \in PageIds : PinEvict(t, p)
    \/ \E t \in Clients, p \in PageIds : PinWait(t, p)
    \/ \E t \in Clients : PinResume(t)
    \/ \E t \in Clients : PinTimeout(t)
    \/ \E t \in Clients : Unpin(t)

SpecPins == InitWarm /\ [][NextPins]_vars

(***************************************************************************)
(* SpecDrain: threads that update one table (alloc_tail_rid), the merge    *)
(* threads that notify_merge starts, and one call of drain_merge.          *)
(* SpecDrainFair adds that a thread which can take its next step takes it. *)
(***************************************************************************)
DrainStep(m) ==
    /\ mt' = m
    /\ UNCHANGED <<tbl, twin, disk, ref, up, drained, last, clock, nops, hist, clean,
                   frame, thr, pool, pthr, cat, saved, given, trk, walk, queued, txn,
                   other, walf, rw, dbp>>

\* alloc_tail_rid enters "with self._lock.write()"
DAlloc(t) ==
    /\ mt.th[t] = "idle"
    /\ TAIL_RID_BEGIN - mt.unused_tail_rid < MaxAllocs
    /\ wp_write_ready(mt.lock)
    /\ DrainStep([mt EXCEPT !.lock = wp_acquire_write(wp_acquire_write_waiting(@), t),
                            !.th[t] = "alloc"])

\* ... and goes on: notify_merge when the RID is due, which waits for the
\* merge lock, then the new RID and the end of the with block
DNotify(t) ==
    /\ mt.th[t] = "alloc"
    /\ merge_due(mt.unused_tail_rid) => mt.merge_lock = 0
    /\ DrainStep([(IF merge_due(mt.unused_tail_rid) THEN notify_merge_locked(mt) ELSE mt)
                     EXCEPT !.unused_tail_rid = @ - 1,
                            !.lock = wp_release_write(@),
                            !.th[t] = "idle"])

\* Table.__merge: clear_merge_queue, and the end of the thread when the
\* queue was empty
DWorkerQueue(i, empty) ==
    /\ i \in DOMAIN mt.workers /\ mt.workers[i] = "queue"
    /\ wp_write_ready(mt.lock)
    /\ DrainStep([mt EXCEPT !.lock = under_write(@, Closer + i),
                            !.workers[i] = IF empty THEN "dead" ELSE "merge"])

\* ... alloc_merge_locations and notify_merge of the page directory, and the
\* end of the thread
DWorkerMerge(i) ==
    /\ i \in DOMAIN mt.workers /\ mt.workers[i] = "merge"
    /\ wp_write_ready(mt.lock)
    /\ DrainStep([mt EXCEPT !.lock = under_write(@, Closer + i), !.workers[i] = "dead"])

\* Table.drain_merge takes the merge lock, disables merging and joins the
\* live merge thread
DDrain ==
    /\ mt.closer = "idle"
    /\ mt.merge_lock = 0
    /\ DrainStep(drain_merge_locked(mt))

\* the join returns and drain_merge leaves its with block
DJoin ==
    /\ mt.closer = "joining"
    /\ ~thread_alive(mt)
    /\ DrainStep([mt EXCEPT !.merge_lock = 0, !.closer = "drained"])

NextDrain ==
    \/ \E t \in Updaters : DAlloc(t)
    \/ \E t \in Updaters : DNotify(t)
    \/ \E i \in 1 .. MaxAllocs, empty \in BOOLEAN : DWorkerQueue(i, empty)
    \/ \E i \in 1 .. MaxAllocs : DWorkerMerge(i)
    \/ DDrain
    \/ DJoin

SpecDrain == Init /\ [][NextDrain]_vars

SpecDrainFair ==
    /\ Init
    /\ [][NextDrain]_vars
    /\ \A t \in Updaters : WF_vars(DNotify(t))
    /\ \A i \in 1 .. MaxAllocs : WF_vars(DWorkerQueue(i, TRUE) \/ DWorkerQueue(i, FALSE))
    /\ \A i \in 1 .. MaxAllocs : WF_vars(DWorkerMerge(i))
    /\ WF_vars(DJoin)

(***************************************************************************)
(* SpecDrop: one client of a Database that opens it, creates and drops     *)
(* tables, inserts records, checkpoints the bufferpool and closes.         *)
(***************************************************************************)
DropStep(c, d) ==
    /\ nops < MaxDropOps
    /\ cat' = c
    /\ dbp' = d
    /\ nops' = nops + 1
    /\ UNCHANGED <<tbl, twin, disk, ref, up, drained, last, clock, hist, clean,
                   frame, thr, pool, pthr, saved, given, trk, walk, queued, txn,
                   other, walf, rw, mt>>

\* Database.open (the trees of SpecDrop never make __init_tables raise); the
\* page directories are loaded as close saved them
DpOpen ==
    /\ ~cat.up
    /\ ~db_open_raises(cat)
    /\ DropStep(db_open(cat),
                [dp_called(dbp, "open", <<>>) EXCEPT !.frames = <<>>, !.dirty = {}])

\* Database.create_table: ValueError for a registered name, else the files
\* and a Table with a new page directory
DpCreate(name) ==
    /\ cat.up
    /\ DropStep(create_table(cat, name, DropColumns, 0),
                IF create_table_raises(cat, name, DropColumns, 0)
                THEN dp_raised(dp_called(dbp, "create_table", name), "ValueError")
                ELSE [dp_called(dbp, "create_table", name) EXCEPT !.records[name] = 0])

\* Query.insert on a registered table
DpInsert(name) ==
    /\ cat.up
    /\ name \in DOMAIN cat.tables
    /\ DropStep(cat, add_base_record_pages(dp_called(dbp, "insert", name), cat.fs, name))

\* Database.drop_table
DpDrop(name) ==
    /\ cat.up
    /\ DropStep(drop_table(cat, name),
                IF name \in DOMAIN cat.tables
                THEN [dp_called(dbp, "drop_table", name) EXCEPT !.dropped = @ \cup {name}]
                ELSE dp_called(dbp, "drop_table", name))

\* Bufferpool.checkpoint
DpCheckpoint ==
    /\ cat.up
    /\ \E order \in Orders(dbp, cat.fs) :
          DropStep(cat, dp_checkpoint(dp_called(dbp, "checkpoint", <<>>), cat.fs, order))

\* Database.close: the page directories are saved, the pool is emptied, and
\* when that has not raised the rest of close is done
closed(c, d) ==
    IF d.error = "none" THEN db_close(c)
    ELSE [c EXCEPT !.fs = save_tables(@, DOMAIN c.tables)]

DpClose ==
    /\ cat.up
    /\ DropStep(closed(cat, dp_evict_all(dp_called(dbp, "close", <<>>),
                                         save_tables(cat.fs, DOMAIN cat.tables))),
                dp_evict_all(dp_called(dbp, "close", <<>>),
                             save_tables(cat.fs, DOMAIN cat.tables)))

NextDrop ==
    \/ DpOpen
    \/ \E name \in DropNames : DpCreate(name)
    \/ \E name \in DropNames : DpInsert(name)
    \/ \E name \in DropNames : DpDrop(name)
    \/ DpCheckpoint
    \/ DpClose

SpecDrop == Init /\ [][NextDrop]_vars
(***************************************************************************)
(* What the claims speak of                                                *)
(***************************************************************************)
\* select(k, key column, all ones) and its two expected shapes
Selected(st, k) == select(st, k, key, Ones)
OneRow(row) == [failed |-> FALSE, rows |-> <<row>>]
NoRow == [failed |-> FALSE, rows |-> <<>>]

\* The step is a call of the client's, of operation op
Calls(op) == clock' = clock + 1 /\ last'.op = op

\* The key a record has after update c
NewKey(c) == IF c.cols[key + 1] # None THEN c.cols[key + 1] ELSE c.pk

\* The row a call update(pk, cols) that returned True must leave, given the
\* result `before` of the select before it
Updated(cols, before, after) ==
    /\ ~after.failed
    /\ Len(after.rows) = 1
    /\ \A i \in 1 .. num_columns :
          IF cols[i] # None THEN after.rows[1][i] = cols[i]
          ELSE (~before.failed /\ Len(before.rows) = 1)
                   => after.rows[1][i] = before.rows[1][i]

\* The tracker holds timestamp ts as committed
Committed(st, ts) == ts \in DOMAIN st.aborted /\ ~st.aborted[ts]

\* The tail records of base record rid written by committed transactions
CommittedTails(st, rid) ==
    {t \in (st.unused_tail_rid + 1) .. TAIL_RID_BEGIN :
       /\ t \in DOMAIN st.offsets
       /\ PageRead(st.pages, st.offsets[t][BASE_RID_COLUMN + 1]) = rid
       /\ Committed(st, PageRead(st.pages, st.offsets[t][TIMESTAMP_COLUMN + 1]))}

\* Data column c of tail record t, or the base record's where t has none
TailColumn(st, rid, t, c) ==
    IF \E i \in DOMAIN st.offsets[t] : st.offsets[t][i].col = c + NUM_META_COLS
    THEN PageRead(st.pages,
             st.offsets[t][CHOOSE i \in DOMAIN st.offsets[t] :
                               st.offsets[t][i].col = c + NUM_META_COLS])
    ELSE PageRead(st.pages, st.offsets[rid][c + NUM_META_COLS + 1])

\* The latest committed version of base record rid, read from the pages:
\* the newest of `tails`, or the base record when there is none.  <<>> when
\* nothing committed wrote rid or the newest is a delete indicator (the
\* record Table.delete_record builds: every column 0, which no call writes).
VersionOf(st, rid, tails) ==
    IF tails = {}
    THEN IF Committed(st, PageRead(st.pages, st.offsets[rid][TIMESTAMP_COLUMN + 1]))
         THEN [i \in 1 .. num_columns |->
                 PageRead(st.pages, st.offsets[rid][i + NUM_META_COLS])]
         ELSE <<>>
    ELSE IF \A c \in Cols : TailColumn(st, rid, Least(tails), c) = 0
    THEN <<>>
    ELSE [i \in 1 .. num_columns |-> TailColumn(st, rid, Least(tails), i - 1)]

LatestCommitted(st, rid) == VersionOf(st, rid, CommittedTails(st, rid))

\* The base RIDs whose latest committed version has value v in column c
Holders(st, c, v) ==
    {rid \in base_rids(st) :
       /\ LatestCommitted(st, rid) # <<>>
       /\ LatestCommitted(st, rid)[c + 1] = v}

\* The results a reader gets for key k: select, select_version, sum
Reads(st, k) ==
    << Selected(st, k),
       [j \in 1 .. MaxOps |-> select_version(st, k, key, Ones, 0 - j)],
       sum(st, k, k, 1) >>

\* What recovery must restore: what readers get and the RID counters
Recovered(st) ==
    << [k \in MergeKeys |-> Selected(st, k)],
       [k \in MergeKeys |-> sum(st, k, k, 1)],
       sum(st, 1, 2, 1),
       st.unused_base_rid, st.unused_tail_rid >>

(***************************************************************************)
(* The claims                                                              *)
(***************************************************************************)
\* C1: a key that was inserted with success and not updated or deleted
\* since selects as exactly the inserted row.
C1_InsertSelect ==
    \A k \in DOMAIN hist : Len(hist[k]) = 1 => Selected(tbl, k) = OneRow(hist[k][1])

\* The state that breaks C1: delete of another key returned True and the
\* inserted key selects as nothing.
C1_Lost ==
    /\ last.op = "delete" /\ last.res
    /\ \E k \in DOMAIN hist : Len(hist[k]) = 1 /\ Selected(tbl, k) = NoRow

\* C2: an update call that returns True leaves one record under the key,
\* with the given values where the update has them and the values held
\* before elsewhere.
C2_UpdateVisible ==
    [][ (Calls("update") /\ last'.res)
            => Updated(last'.cols, Selected(tbl, last'.pk), Selected(tbl', NewKey(last'))) ]_vars

\* The state that breaks C2: update returned True and select fails.
C2_Unreadable ==
    /\ last.op = "update" /\ last.res
    /\ Selected(tbl, NewKey(last)).failed

\* C3: with no abort and no merge, for a key inserted and then updated n
\* times select_version(k, -j) is the row after the (n-j)-th update, and
\* the inserted row for j >= n.
C3_Versions ==
    clean =>
        \A k \in DOMAIN hist : \A j \in 0 .. MaxOps :
            select_version(tbl, k, key, Ones, 0 - j)
                = OneRow(hist[k][Max(1, Len(hist[k]) - j)])

\* The state that breaks C3: one update, and the previous version cannot
\* be read.
C3_NoPrevious ==
    /\ clean
    /\ \E k \in DOMAIN hist :
          /\ Len(hist[k]) = 2
          /\ Selected(tbl, k) = OneRow(hist[k][2])
          /\ select_version(tbl, k, key, Ones, 0 - 1).failed

\* C4: delete of an existing key returns True; afterwards the key selects
\* as nothing and is gone from the key index, every other key is still in
\* the index, and an insert of the key succeeds.
C4_Delete ==
    [][ (Calls("delete") /\ last'.pk \in DOMAIN hist)
            => /\ last'.res
               /\ Selected(tbl', last'.pk) = NoRow
               /\ last'.pk \notin DOMAIN tbl'.index[key]
               /\ (DOMAIN tbl.index[key]) \ {last'.pk} \subseteq DOMAIN tbl'.index[key]
               /\ insert(tbl', <<last'.pk, InsertVal>>, None, clock').res ]_vars

\* The state that breaks C4: delete returned False and the key is still
\* there.
C4_Refused ==
    /\ last.op = "delete" /\ ~last.res
    /\ last.pk \in DOMAIN tbl.index[key]
    /\ Len(Selected(tbl, last.pk).rows) = 1

\* C5: insert of a key that is in the table returns False and changes
\* nothing of the table's state.
C5_UniqueKey ==
    [][ (Calls("insert") /\ last'.pk \in DOMAIN hist) => (~last'.res /\ tbl' = tbl) ]_vars

\* The state that breaks C5: insert returned True and two live base
\* records carry its key.
C5_Duplicate ==
    /\ last.op = "insert" /\ last.res
    /\ Cardinality(Holders(tbl, key, last.pk)) = 2

\* C6: after insert, update and delete calls, whatever they returned, the
\* index of every indexed column locates for every value exactly the base
\* RIDs whose latest committed version has the value in that column.
C6_IndexConsistent ==
    clean =>
        \A c \in DOMAIN tbl.index : \A v \in Keys \cup DOMAIN tbl.index[c] :
            Get(tbl.index[c], v, {}) = Holders(tbl, c, v)

\* The state that breaks C6: an update that set the key to a value in use
\* returned False, and the record's own key is gone from the index.
C6_KeyDropped ==
    /\ clean
    /\ last.op = "update" /\ ~last.res
    /\ last.pk \notin DOMAIN tbl.index[key]
    /\ Holders(tbl, key, last.pk) # {}

\* C7: a transaction of updates that wrote a tail record and aborted leaves
\* select, select_version and sum of every key as they were before it.
C7_AbortIsolation ==
    [][ ( /\ Calls("txn") /\ ~last'.res
          /\ \A i \in DOMAIN last'.queries : last'.queries[i].type = "update"
          /\ tbl'.unused_tail_rid < tbl.unused_tail_rid )
            => \A k \in Keys : Reads(tbl', k) = Reads(tbl, k) ]_vars

\* The state that breaks C7: the transaction aborted and a key it updated
\* can no longer be selected.
C7_Unselectable ==
    /\ last.op = "txn" /\ ~last.res
    /\ \A i \in DOMAIN last.queries : last.queries[i].type = "update"
    /\ \E i \in DOMAIN last.queries :
          /\ last.queries[i].pk \in DOMAIN tbl.index[key]
          /\ Selected(tbl, last.queries[i].pk).failed

\* C8: after the workload and drain_merge, select_version of every key and
\* every version gives the same on the table that merged as on the table
\* that ran the workload with merging disabled.
C8_MergePreserves ==
    drained =>
        \A k \in MergeKeys : \A j \in 0 .. MaxMergeOps :
            select_version(tbl, k, key, Ones, 0 - j)
                = select_version(twin, k, key, Ones, 0 - j)

\* The state that breaks C8: the merged table answers select_version(-1)
\* where the table without merge does not.
C8_Differs ==
    /\ drained
    /\ \E k \in MergeKeys :
          /\ ~select_version(tbl, k, key, Ones, 0 - 1).failed
          /\ select_version(twin, k, key, Ones, 0 - 1).failed

\* C9: whenever the database is open, after any kills and reopens, select
\* and sum of every key and the RID counters are those of the crash-free run
\* of the same calls.
C9_CrashRecovery == up => Recovered(tbl) = Recovered(ref)

\* The state that breaks C9: the database reopened after a second kill and
\* a row of the crash-free run is gone.
C9_RowLost ==
    /\ up /\ last.op = "open"
    /\ \E k \in MergeKeys :
          /\ Len(Selected(ref, k).rows) = 1
          /\ Selected(tbl, k) = NoRow

\* C10: a mutating call that returns True (a single query, other than an
\* update that gives no column, or Transaction.run) has appended its
\* transaction's record to the WAL when it returns.
C10_DurableCommit ==
    [][ ( /\ clock' = clock + 1
          /\ last'.res
          /\ ~(last'.op = "update" /\ \A i \in DOMAIN last'.cols : last'.cols[i] = None) )
            => /\ Len(tbl'.wal) = Len(tbl.wal) + 1
               /\ tbl'.wal[Len(tbl'.wal)]
                      = [start_time |-> last'.ts, queries |-> last'.queries] ]_vars

\* The state that breaks C10: Transaction.run returned True and the WAL is
\* empty.
C10_Unlogged ==
    /\ last.op = "txn" /\ last.res
    /\ tbl.wal = <<>>


\* C11: while a thread holds the write side of the frame's lock no other
\* thread holds its read or write side, and a thread that holds the read
\* side never sees the bytes of a write in progress.
HoldsRead(t) == thr[t].pc = "reading"
HoldsWrite(t) == thr[t].pc \in {"writing", "half", "written"}

C11_LockSafety ==
    /\ \A t \in Threads : HoldsWrite(t) =>
          \A u \in Threads \ {t} : ~HoldsRead(u) /\ ~HoldsWrite(u)
    /\ \A t \in Threads : HoldsRead(t) => frame.data[1] = frame.data[2]

\* The state that breaks C11: a reader holds the frame while a writer has
\* stored half of its bytes.
C11_TornRead ==
    \E t \in Threads, u \in Threads :
        /\ HoldsRead(t) /\ thr[u].pc = "half"
        /\ frame.data[1] # frame.data[2]

\* C12: in every reachable state the number of resident frames is at most
\* BUFFERPOOL_MAX_FRAMES, under any interleaving of pin, fetch, unpin,
\* evict_page, checkpoint and close by several threads.
C12_LruBound == Len(pool.frames) <= BUFFERPOOL_MAX_FRAMES

\* The case of C12: the pool is full after a pin for which the least
\* recently used frame had to go.
C12_FullAfterEviction ==
    /\ Len(pool.frames) = BUFFERPOOL_MAX_FRAMES
    /\ \E t \in Clients :
          pthr[t].pc = "held" /\ pthr[t].lru # None /\ ~resident(pool, pthr[t].lru)

\* C13: a pinned frame is never evicted: a thread that has pinned a page and
\* has not yet unpinned it still finds the frame it was given in the pool.
C13_PinnedStays ==
    \A t \in Clients : pthr[t].pc \in {"held", "marked"} => ~pthr[t].orphan

\* The state that breaks C13: a thread holds a pin on a frame that has been
\* evicted, the pool's pin count for the page having been 0.
C13_EvictedUnderPin ==
    \E t \in Clients :
        /\ pthr[t].pc \in {"held", "marked"} /\ pthr[t].orphan
        /\ ~resident(pool, pthr[t].page)

\* C14: every resident frame whose bytes differ from its page on disk is in
\* the dirty set; a frame that leaves the pool leaves its bytes in its page
\* slot on disk, a page that is not resident keeps its bytes on disk, and a
\* page that becomes resident gets the bytes on disk.
DirtyCovers ==
    \A p \in PageIds :
        resident(pool, p) /\ pool.data[p] # page_on_disk(pool.file, p) => p \in pool.dirty

C14_NoLostWrite ==
    [][ /\ DirtyCovers
        /\ \A p \in PageIds :
            /\ resident(pool, p) /\ ~resident(pool', p)
                  => page_on_disk(pool'.file, p) = pool.data[p]
            /\ ~resident(pool, p) /\ ~resident(pool', p)
                  => page_on_disk(pool'.file, p) = page_on_disk(pool.file, p)
            /\ ~resident(pool, p) /\ resident(pool', p)
                  => pool'.data[p] = page_on_disk(pool.file, p) ]_vars

\* The case of C14: a page behind the end the file had at first has been
\* written in the pool and evicted: it is not resident and its bytes are on
\* disk.
C14_WrittenBack ==
    \E p \in PageIds :
        /\ p >= Len(NewPool.file) /\ ~resident(pool, p)
        /\ p \in pool.dirty /\ page_on_disk(pool.file, p) # 0

\* C15: no base RID and no tail RID is handed out twice, and every tail RID
\* handed out is greater than every base RID handed out, across inserts,
\* updates, merges and close/reopen cycles.
NoRepeat(s) == \A i \in DOMAIN s, j \in DOMAIN s : i # j => s[i] # s[j]

C15_RidUnique ==
    /\ NoRepeat(given.base)
    /\ NoRepeat(given.tail)
    /\ \A i \in DOMAIN given.base, j \in DOMAIN given.tail : given.tail[j] > given.base[i]

\* The state that breaks C15: after a close and a reopen an update was given
\* a tail RID that an insert was given as base RID.
C15_TailIsBase ==
    /\ last.op = "update"
    /\ saved # NoFiles
    /\ \E i \in DOMAIN given.base, j \in DOMAIN given.tail : given.tail[j] = given.base[i]

\* The live records: the base RIDs whose latest committed version is not a
\* delete; Live(st, lo, hi) are those with key in [lo, hi]
Live(st, lo, hi) ==
    {rid \in base_rids(st) :
       /\ LatestCommitted(st, rid) # <<>>
       /\ lo <= LatestCommitted(st, rid)[key + 1]
       /\ LatestCommitted(st, rid)[key + 1] <= hi}

\* The ordinary sum of column c over the latest versions of rids
RECURSIVE Total(_, _, _)
Total(st, rids, c) ==
    IF rids = {} THEN 0
    ELSE LatestCommitted(st, Least(rids))[c + 1] + Total(st, rids \ {Least(rids)}, c)

\* What sum(lo, hi, c) must return
SumOf(st, rids, c) ==
    IF c \notin Cols \/ rids = {}
    THEN [failed |-> TRUE, total |-> 0]
    ELSE [failed |-> FALSE, total |-> Total(st, rids, c)]

\* the range bounds sum is asked with: the keys and one value on either side
SumBounds == Keys \cup {Least(Keys) - 1, Least(Keys) + Cardinality(Keys)}

\* C16: sum(lo, hi, c) is the ordinary sum of column c over the latest
\* versions of the live records with key in [lo, hi], and False when there
\* is none or c is not a column.
C16_SumCorrect ==
    \A lo \in SumBounds, hi \in SumBounds, c \in 0 .. num_columns :
        sum(tbl, lo, hi, c) = SumOf(tbl, Live(tbl, lo, hi), c)

\* The state that breaks C16: a transaction aborted, and sum over all keys
\* returns False although a live record has its key in the range.
C16_SumFails ==
    /\ last.op = "txn" /\ ~last.res
    /\ sum(tbl, Least(SumBounds), Least(SumBounds) + Cardinality(SumBounds), 1).failed
    /\ Live(tbl, Least(SumBounds), Least(SumBounds) + Cardinality(SumBounds)) # {}

\* The rows of the latest committed versions of rids, in base-RID order,
\* each with the columns the mask has a 1 for
RECURSIVE RowsOf(_, _, _)
RowsOf(st, rids, mask) ==
    IF rids = {} THEN <<>>
    ELSE <<filter_columns(LatestCommitted(st, Least(rids)), mask)>>
             \o RowsOf(st, rids \ {Least(rids)}, mask)

\* the values select is asked for and the projections it is asked with
SelectVals == Keys \cup {0, InsertVal, UpdateVal, TxnVal, InsertVal + 1}
Masks == [1 .. num_columns -> {0, 1}]

\* C17: select(v, c, mask) returns the live records whose latest version has
\* v in column c, in base-RID order (by the index for the key column, by the
\* scan of the table for the other), each with the columns of the mask, and
\* the empty list when there is none.
C17_SelectAny ==
    \A v \in SelectVals, c \in Cols, mask \in Masks :
        select(tbl, v, c, mask)
            = [failed |-> FALSE, rows |-> RowsOf(tbl, Holders(tbl, c, v), mask)]

\* The state that breaks C17: delete returned True, no live record has 0 in
\* the second column, and select(0, 1, all ones) returns a record: the
\* deleted one, with the zeros of its delete indicator.
C17_DeletedSelected ==
    /\ last.op = "delete" /\ last.res
    /\ Holders(tbl, 1, 0) = {}
    /\ select(tbl, 0, 1, Ones) = OneRow([i \in 1 .. num_columns |-> 0])

\* row with column c one higher
Bumped(row, c) == [i \in 1 .. Len(row) |-> IF i = c + 1 THEN row[i] + 1 ELSE row[i]]

\* C18: increment(k, c) of a key that a live record has returns True;
\* afterwards the record's latest version is the one before with column c
\* one higher, and the WAL has one more transaction, which holds the
\* increment query alone.
C18_Increment ==
    [][ (Calls("increment") /\ Holders(tbl, key, last'.pk) # {})
            => /\ last'.res
               /\ \A rid \in Holders(tbl, key, last'.pk) :
                     /\ LatestCommitted(tbl', rid)
                            = Bumped(LatestCommitted(tbl, rid), last'.cols[1])
                     /\ Selected(tbl', last'.pk)
                            = OneRow(Bumped(LatestCommitted(tbl, rid), last'.cols[1]))
               /\ Len(tbl'.wal) = Len(tbl.wal) + 1
               /\ tbl'.wal[Len(tbl'.wal)]
                      = [ start_time |-> last'.ts,
                          queries |-> <<StoredQuery("increment", last'.pk, last'.cols)>> ] ]_vars

\* The state that breaks C18: increment of the key of a live record returned
\* False, after a transaction that updated the key aborted.
C18_Refused ==
    /\ last.op = "increment" /\ ~last.res
    /\ Holders(tbl, key, last.pk) # {}
    /\ \E ts \in DOMAIN tbl.aborted : tbl.aborted[ts]

\* C19: Database.open after Database.close on the same path returns, and
\* registers the tables that were registered at the close, each with the
\* name, num_columns and key index it had.
C19_CatalogPersists ==
    [][ (nops' = nops + 1 /\ last'.op = "open")
            => /\ ~cat'.raised
               /\ cat'.tables = cat.before ]_vars

\* The state that breaks C19: a table whose name has a "/" was registered at
\* the close, and Database.open on the path raised.
C19_OpenRaised ==
    /\ cat.raised
    /\ \E name \in DOMAIN cat.before : \E i \in DOMAIN name : name[i] = "/"

\* exactly one of the three is true
OneOf(s) == Cardinality({i \in DOMAIN s : s[i]}) = 1

\* C20: for every start time exactly one of is_committed, is_aborted and
\* is_maybe_pending is true; the status of a start time that has been marked
\* never changes; a mark_committed or mark_aborted for a start time the
\* tracker held when the call was made raises, and from its raise to its
\* return the tracker is unchanged.
C20_TrackerStatus ==
    [][ /\ \A ts \in Timestamps :
              /\ OneOf(status(trk.aborted, ts)) /\ OneOf(status(trk'.aborted, ts))
              /\ ~is_maybe_pending(trk.aborted, ts)
                    => status(trk'.aborted, ts) = status(trk.aborted, ts)
        /\ \A t \in Trackers :
              /\ (trk.th[t].pc = "check" /\ trk'.th[t].pc # "check" /\ trk.th[t].was)
                    => trk'.th[t].res = "raised"
              /\ (trk'.th[t].res = "raised" /\ trk'.th[t].pc # "idle")
                    => trk'.aborted = trk.aborted
              /\ (trk.th[t].res = "raised" /\ trk.th[t].pc # "idle")
                    => trk'.aborted = trk.aborted ]_vars

\* The case of C20: a thread's mark of a start time that another thread's
\* mark had committed has raised and returned, the start time is still
\* committed, and another start time is pending.
C20_SecondMarkRaised ==
    \E t \in Trackers :
        /\ trk.th[t].pc = "idle" /\ trk.th[t].op = "mark_aborted"
        /\ trk.th[t].was /\ trk.th[t].res = "raised"
        /\ status(trk.aborted, trk.th[t].timestamp) = <<TRUE, FALSE, FALSE>>
        /\ \E ts \in Timestamps : status(trk.aborted, ts) = <<FALSE, FALSE, TRUE>>

\* C21: a reader of get_record_version either decides with the TPS that
\* get_base_record_location returned together with the locations it read
\* the base record through, or the locations it read through are the ones
\* published when it read the TPS: it never decides with a new TPS on
\* values read through the old offsets.
C21_AtomicPublication ==
    walk.pc = "done" => (walk.used = walk.tps \/ walk.locs = walk.now)

\* The reader of base RID 1000 has decided with the merged TPS on the base
\* record read through the locations of before the merge, and returns the
\* inserted value where a read after it returns the incremented one.
C21_StaleBase ==
    /\ walk.pc = "done" /\ walk.used # walk.tps /\ walk.locs # walk.now
    /\ ~walk.res.exc /\ walk.res.raw[NUM_META_COLS + 2] = InsertVal
    /\ ~get_latest_record(tbl, walk.base_rid).exc
    /\ get_latest_record(tbl, walk.base_rid).raw[NUM_META_COLS + 2] > InsertVal

(***************************************************************************)
(* The vocabulary of the merge-queue claims: the records of a conceptual   *)
(* page, the transaction that wrote a record, stable pages.                *)
(***************************************************************************)
TailPages(st) == 0 .. (st.unused_tp_idx - 1)
TailRids(st, tp) ==
    {r \in DOMAIN st.offsets : ~st.offsets[r][1].base /\ st.offsets[r][1].idx = tp}
BaseRidsOf(st, bp) ==
    {r \in DOMAIN st.offsets : st.offsets[r][1].base /\ st.offsets[r][1].idx = bp}
Stored(st, r, c) == PageRead(st.pages, st.offsets[r][c + 1])

\* an original copy points back at its base record
IsOriginalCopy(st, r) ==
    ~st.offsets[r][1].base /\ is_base_rec(st, Stored(st, r, INDIRECTION_COLUMN))

\* the start time of the transaction that wrote record r: the record's
\* timestamp, and for an original copy that of the tail record that the
\* same add_tail_record wrote after it (None when it wrote none)
Writer(st, r) ==
    IF ~IsOriginalCopy(st, r) THEN Stored(st, r, TIMESTAMP_COLUMN)
    ELSE IF (r - 1) \in DOMAIN st.offsets /\ ~st.offsets[r - 1][1].base
    THEN Stored(st, r - 1, TIMESTAMP_COLUMN)
    ELSE None

Resolved(st, r) == Writer(st, r) \in DOMAIN st.aborted

FullResolved(st, rids) ==
    Cardinality(rids) = con_page_max_recs /\ \A r \in rids : Resolved(st, r)

\* a full tail page whose records and whose full base page's records are all
\* written by transactions that have committed or aborted
Stable(st, tp) ==
    /\ tp \in DOMAIN st.con_tp_owner
    /\ FullResolved(st, TailRids(st, tp))
    /\ FullResolved(st, BaseRidsOf(st, st.con_tp_owner[tp]))

InSeq(s, x) == \E i \in DOMAIN s : s[i] = x

\* C22: every full tail page whose records, and the records of the full
\* base page that owns it, are all written by committed or aborted
\* transactions is in the merge queue or has been in it.
C22_QueueComplete ==
    \A tp \in TailPages(tbl) : Stable(tbl, tp) => InSeq(queued, tp)

\* A tail page without an original copy, full and resolved before its base
\* page was, that has never been in the merge queue.
C22_NeverQueued ==
    \E tp \in TailPages(tbl) :
        /\ Stable(tbl, tp) /\ ~InSeq(queued, tp)
        /\ \A r \in TailRids(tbl, tp) : ~IsOriginalCopy(tbl, r)
        /\ txn.pc = "none"

\* C23: every tail page that a step appends to the merge queue is full,
\* each of its records is written by a transaction that the tracker holds
\* as committed or aborted, its base page is full and resolved in the same
\* way, and the page has not been appended before.
C23_QueueSafe ==
    [][ \A i \in (Len(queued) + 1) .. Len(queued') :
            /\ Stable(tbl', queued'[i])
            /\ \A j \in 1 .. Len(queued') : queued'[j] = queued'[i] => j = i ]_vars

\* A tail page has been appended that holds the record of an aborted
\* transaction next to a committed one.
C23_QueuedResolved ==
    \E i \in DOMAIN queued :
        /\ Stable(tbl, queued[i])
        /\ \E r \in TailRids(tbl, queued[i]) : is_aborted_xact(tbl, Writer(tbl, r))
        /\ \E r \in TailRids(tbl, queued[i]) : ~is_aborted_xact(tbl, Writer(tbl, r))

\* a tail page of A in the merge queue that is not full: the count of its
\* resolved records was raised by a RID of B's directory
C23_PartialQueued ==
    \E i \in DOMAIN queued :
        /\ Get(tbl.con_tp_num_records, queued[i], 0) < con_page_max_recs
        /\ Get(tbl.con_tp_num_resolved, queued[i], 0) = con_page_max_recs
        /\ last.op = "cross"

\* C24: in every state, for every allocated base RID b and every schema
\* encoding s, alloc_tail_rid(b, s) raises nothing and returns a tail RID
\* that is not in use, with NUM_META_COLS + popcount(s) offsets, all in one
\* conceptual tail page that is owned by the base page of b's metadata.
SchemaEncodings == [1 .. (num_raw_cols - NUM_META_COLS) -> {0, 1}]

popcount(s) == Cardinality({i \in DOMAIN s : s[i] = 1})

TailAllocated(st, b, s, r) ==
    /\ ~r.exc
    /\ r.rid \notin DOMAIN st.offsets
    /\ r.rid \in DOMAIN r.st.offsets
    /\ Len(r.offsets) = NUM_META_COLS + popcount(s)
    /\ \A i \in DOMAIN r.offsets :
           /\ ~r.offsets[i].base
           /\ r.offsets[i].idx = r.offsets[1].idx
    /\ r.st.con_tp_owner[r.offsets[1].idx] = st.offsets[b][1].idx

C24_TailAllocation ==
    \A b \in base_rids(tbl) : \A s \in SchemaEncodings :
        TailAllocated(tbl, b, s, alloc_tail_rid(tbl, b, s))

\* a base record of a page range that was created after a merge had taken
\* a base page index: its base page has no entry for the last tail page
C24_RangeAfterMerge ==
    \E b \in base_rids(tbl) :
        /\ tbl.offsets[b][1].idx # (b - BASE_RID_BEGIN) \div con_page_max_recs
        /\ tbl.offsets[b][1].idx \notin DOMAIN tbl.con_bp_last_con_tp
        /\ alloc_tail_rid(tbl, b, [i \in 1 .. (num_raw_cols - NUM_META_COLS) |-> 1]).exc

\* C25: for every base record with tail records, the base record's
\* indirection is the RID of its newest tail record, the indirection of each
\* tail record is the RID of the next older tail record of the same base
\* record, and that of the oldest one, the original copy, is the base RID.
TailsOf(st, b) ==
    {r \in DOMAIN st.offsets : ~st.offsets[r][1].base /\ Stored(st, r, BASE_RID_COLUMN) = b}

\* tail RIDs descend: the newest record has the smallest RID
Newest(rids) == CHOOSE r \in rids : \A r2 \in rids : r <= r2

Previous(st, b, r) ==
    IF \A r2 \in TailsOf(st, b) : r2 <= r
    THEN b
    ELSE Newest({r2 \in TailsOf(st, b) : r2 > r})

ChainOf(st, b) ==
    /\ Stored(st, b, INDIRECTION_COLUMN) = Newest(TailsOf(st, b))
    /\ \A r \in TailsOf(st, b) : Stored(st, r, INDIRECTION_COLUMN) = Previous(st, b, r)

C25_IndirectionChain ==
    \A b \in base_rids(tbl) : TailsOf(tbl, b) # {} => ChainOf(tbl, b)

\* a base record that points at its newest tail record, whose original copy
\* points back at it, and whose newest tail record points nowhere
C25_ChainBroken ==
    \E b \in base_rids(tbl) :
        /\ Cardinality(TailsOf(tbl, b)) >= 2
        /\ Stored(tbl, b, INDIRECTION_COLUMN) = Newest(TailsOf(tbl, b))
        /\ Stored(tbl, Previous(tbl, b, Newest(TailsOf(tbl, b))), INDIRECTION_COLUMN) = b
        /\ Stored(tbl, Newest(TailsOf(tbl, b)), INDIRECTION_COLUMN) = 0

\* C26: a merge cycle leaves, for every base RID it merged, the data
\* columns of the latest committed version among the tail records up to the
\* new TPS in the base image, and a TPS that is not the RID of a tail record
\* of an aborted transaction.
CommittedRecord(st, r) == IsOriginalCopy(st, r) \/ Committed(st, Writer(st, r))

HasColumn(st, r, c) == \E i \in DOMAIN st.offsets[r] : st.offsets[r][i].col = c

ColumnOf(st, r, c) ==
    PageRead(st.pages, st.offsets[r][CHOOSE i \in DOMAIN st.offsets[r] : st.offsets[r][i].col = c])

\* the value of raw column c in tail record r: the stored one, or the
\* original one where the record's cumulative schema has no bit for c
VersionColumn(st, b, r, c) ==
    IF HasColumn(st, r, c) THEN ColumnOf(st, r, c)
    ELSE ColumnOf(st, CHOOSE o \in TailsOf(st, b) : IsOriginalCopy(st, o), c)

LatestCommittedUpTo(st, b, tps) ==
    Newest({r \in TailsOf(st, b) : r >= tps /\ CommittedRecord(st, r)})

Merged(st, st2) ==
    {b \in DOMAIN st.tps \cap DOMAIN st2.tps : st2.tps[b] # st.tps[b]}

MergedImage(st, b) ==
    /\ st.tps[b] \in TailsOf(st, b)
    /\ CommittedRecord(st, st.tps[b])
    /\ \A c \in NUM_META_COLS .. (num_raw_cols - 1) :
           ColumnOf(st, b, c) = VersionColumn(st, b, LatestCommittedUpTo(st, b, st.tps[b]), c)

C26_MergeCommitted ==
    [][ \A b \in Merged(tbl, tbl') : MergedImage(tbl', b) ]_vars

\* a base record whose TPS is the RID of a tail record of an aborted
\* transaction, with that record's value in the base image
C26_AbortedMerged ==
    \E b \in DOMAIN tbl.tps :
        /\ tbl.tps[b] \in TailsOf(tbl, b)
        /\ ~IsOriginalCopy(tbl, tbl.tps[b])
        /\ is_aborted_xact(tbl, Writer(tbl, tbl.tps[b]))
        /\ ColumnOf(tbl, b, NUM_META_COLS + 1) = TxnVal

\* C27: a step never moves the TPS of a base record back to an older tail
\* record (tail RIDs descend: newer is smaller).
C27_TpsAdvances ==
    [][ \A b \in DOMAIN tbl.tps \cap DOMAIN tbl'.tps : tbl'.tps[b] <= tbl.tps[b] ]_vars

\* the TPS of a base record is older than a tail record of it that an
\* earlier merge cycle has folded into the base image
C27_TpsBehind ==
    \E b \in DOMAIN tbl.tps : \E i \in DOMAIN queued :
        /\ last.op = "merge"
        /\ tbl.tps[b] \in TailsOf(tbl, b)
        /\ \E r \in TailsOf(tbl, b) \cap TailRids(tbl, queued[i]) : r < tbl.tps[b]
        /\ tbl.merge_queue = <<>>

\* C28: Database.open after Database.close gives the page directory the
\* counters and the maps it had at the close (after the close's drain of
\* the merge).
DirectoryFields ==
    {"unused_tp_idx", "unused_bp_idx", "unused_base_rid", "unused_tail_rid",
     "num_records", "offsets", "con_bp_num_records", "con_tp_num_records",
     "con_bp_num_resolved", "con_tp_num_resolved", "con_tp_owner", "tps",
     "merge_queue", "range_last_bp", "con_bp_last_con_tp"}

C28_RoundTrip ==
    [][ (~up /\ up') => \A f \in DirectoryFields : tbl'[f] = drain_merge(tbl)[f] ]_vars

\* a reopened directory with tail pages and no owner for any of them, and
\* with the next base RID as its next tail RID
C28_OwnerLost ==
    /\ up /\ last.op = "open"
    /\ tbl.unused_tp_idx > 0
    /\ DOMAIN tbl.con_tp_owner = {}
    /\ tbl.unused_tail_rid = tbl.unused_base_rid
    /\ \A f \in DirectoryFields \ {"con_tp_owner", "unused_tail_rid"} : tbl[f] = load(saved)[f]

\* C29: a step that truncates the WAL leaves a disk from which
\* Database.open, after a crash right then, builds the table the step left:
\* select and sum of every key and the RID counters are the same.
C29_TruncationDurable ==
    [][ (disk.wal # <<>> /\ disk'.wal = <<>>)
            => /\ open(disk').ok
               /\ Recovered(open(disk').st) = Recovered(tbl') ]_vars

\* the database has replayed its log and emptied it, and a row that the
\* replay brought back is not in the table that open builds from the disk
C29_TruncatedEarly ==
    /\ up /\ last.op = "open"
    /\ disk.wal = <<>>
    /\ disk.pages = tbl.pages
    /\ \E k \in MergeKeys :
          /\ Len(Selected(tbl, k).rows) = 1
          /\ Selected(open(disk).st, k) = NoRow

\* C30: in both tables, the resolved count of every conceptual page is the
\* number of its records that a transaction wrote (all but original copies)
\* whose start time the tracker holds: each affected RID of a marked
\* transaction has been resolved once, in the directory of its own table,
\* and nothing else has.
Marked(st, rids) ==
    {r \in rids : ~IsOriginalCopy(st, r) /\ Stored(st, r, TIMESTAMP_COLUMN) \in DOMAIN st.aborted}

ResolvedOnce(st) ==
    /\ \A tp \in TailPages(st) :
           Get(st.con_tp_num_resolved, tp, 0) = Cardinality(Marked(st, TailRids(st, tp)))
    /\ \A bp \in 0 .. (st.unused_bp_idx - 1) :
           Get(st.con_bp_num_resolved, bp, 0) = Cardinality(Marked(st, BaseRidsOf(st, bp)))

C30_ResolvedOnce == ResolvedOnce(Tables.A) /\ ResolvedOnce(Tables.B)

\* after a committed transaction over both tables: a tail page of A and a
\* tail page of B whose resolved counts are one above the number of their
\* records of marked transactions
CountedTwice(st) ==
    \E tp \in TailPages(st) :
        Get(st.con_tp_num_resolved, tp, 0) = Cardinality(Marked(st, TailRids(st, tp))) + 1

C30_CountedTwice ==
    /\ last.op = "cross" /\ last.res
    /\ CountedTwice(Tables.A)
    /\ CountedTwice(Tables.B)

\* C31: recover() raises nothing and returns the logged transactions, in
\* log order, each with its start time and its queries' types, table names
\* and arguments.
C31_WalRoundTrip ==
    walf.pc = "recovered" => (~walf.res.exc /\ walf.res.xacts = walf.logged)

\* a logged query on the table "é": recover reads one byte of its two-byte
\* name and raises
C31_NameCut ==
    /\ walf.pc = "recovered"
    /\ walf.res.exc
    /\ \E i \in DOMAIN walf.logged : \E j \in DOMAIN walf.logged[i].queries :
           /\ walf.logged[i].queries[j].table = <<233>>
           /\ Len(encode(<<233>>)) = 2
           /\ decode(SubSeq(encode(<<233>>), 1, 1)).exc

\* C33: any number of threads may hold the read side of the frame's
\* ReadPreferringRWLock at once and release it in any order: no release_read
\* raises, and once every thread has left, the lock is free (no reader
\* counted, _read_lock and _exclusive_lock without an owner), so that a
\* writer and later readers can acquire it.
C33_ReadersRelease ==
    /\ \A t \in Threads : ~thr[t].raised
    /\ (\A t \in Threads : thr[t].pc = "idle") =>
          /\ frame.num_readers = 0
          /\ frame.read_lock = RLock
          /\ frame.exclusive_lock = RLock

\* The state that breaks C33: two threads read together, the one that took
\* the exclusive lock left first, and the release of the last reader raised;
\* every thread is outside the lock, yet _exclusive_lock still belongs to the
\* first reader and _read_lock to the last.
C33_LastReaderRaises ==
    \E t \in Threads : \E u \in Threads \ {t} :
        /\ \A v \in Threads : thr[v].pc = "idle"
        /\ thr[t].raised
        /\ frame.num_readers = 0
        /\ frame.read_lock.owner = t
        /\ frame.exclusive_lock.owner = u
        /\ ~rlock_free(frame.exclusive_lock, t)

\* C32: a thread that holds the write side of a WritePreferringRWLock can
\* call acquire_write again without blocking, and when it has released the
\* write side as many times as it acquired it, the lock is free: the thread
\* is no longer the writer, no writer is active, and the lock's mutex does
\* not keep any other thread out of acquire_read and acquire_write.
HoldsWriteSide(t) == rw.th[t].writes > 0 /\ rw.lock.write_thread_id = t

LeavesWriteSide(t) == HoldsWriteSide(t) /\ rw'.th[t].writes = 0

C32_Reentrant ==
    [][\A t \in RwThreads :
          /\ HoldsWriteSide(t) => rlock_free(rw.mutex, t)
          /\ LeavesWriteSide(t) =>
                /\ rw'.lock.write_thread_id # t
                /\ ~rw'.lock.is_writer_active
                /\ \A u \in RwThreads \ {t} : rlock_free(rw'.mutex, u)]_vars

\* The state that breaks C32: a thread has acquired the write side twice and
\* released it twice; no thread holds or awaits a side of the lock, yet the
\* mutex still belongs to that thread and the other threads cannot enter
\* acquire_read or acquire_write.
C32_MutexKept ==
    \E t \in RwThreads :
        /\ \A v \in RwThreads : rw.th[v] = [RwIdle EXCEPT !.res = rw.th[v].res]
        /\ rw.lock = [WPLock EXCEPT !.recursion_level = 0]
        /\ rw.mutex = [owner |-> t, count |-> 1]
        /\ \A u \in RwThreads \ {t} : ~rlock_free(rw.mutex, u)

\* C34: a reader is admitted to a WritePreferringRWLock only when no thread
\* holds the write side and no writer waits, and a writer other than the
\* owner only when no thread holds the read side or the write side; so at
\* most one thread holds the write side, never beside a reader, and a reader
\* that arrives while a writer waits does not enter before it.
Readers == {t \in RwThreads : rw.th[t].reads > 0}

Writers == {t \in RwThreads : rw.th[t].writes > 0}

WaitingWriters == {t \in RwThreads : rw.th[t].pc = "wait_write"}

ReaderAdmitted(t) == rw'.th[t].reads > rw.th[t].reads

WriterAdmitted(t) == rw.th[t].writes = 0 /\ rw'.th[t].writes > 0

C34_Admission ==
    [][/\ Cardinality(Writers) <= 1
       /\ Writers # {} => Readers = {}
       /\ \A t \in RwThreads :
             /\ ReaderAdmitted(t) => Writers = {} /\ WaitingWriters = {}
             /\ WriterAdmitted(t) => Readers = {} /\ Writers = {}]_vars

\* The state that breaks C34: the lock was built with BUFFERPOOL_LOCK_TIMEOUT
\* and a scoped acquisition failed; its release undid the count of a thread
\* that was inside, and now a thread holds the write side beside another
\* writer or beside a reader.
C34_WriterNotAlone ==
    /\ wait_for_expired(rw.timeout)
    /\ \E t \in RwThreads : rw.th[t].res = "raised"
    /\ \E t \in Writers : \E u \in (Readers \cup Writers) \ {t} :
          rw.lock.write_thread_id = t /\ rw.lock.is_writer_active

\* C35: a thread that waits in pin for its pinned victim, or in checkpoint
\* for a pinned dirty page, is woken by the unpin that brings the page's pin
\* count to 0 and goes on: when every pin is given up in the end and every
\* notified waiter runs, a wait whose page has pin count 0 ends (or the page
\* is pinned again), without the help of the eviction timeout.
Waits(t) == pthr[t].pc \in {"pin_wait", "checkpoint_wait"}

Unpinned(t) == pool.pins[pthr[t].lru] = 0

C35_WakeUp == \A t \in Clients : (Waits(t) /\ Unpinned(t)) ~> (~Waits(t) \/ ~Unpinned(t))

\* The state that breaks C35: a thread waits for a page whose pin count the
\* last unpin has brought to 0; it has not been notified, and no thread
\* holds a pin or runs a call that could notify it later.
C35_NotWoken ==
    \E t \in Clients :
        /\ Waits(t) /\ Unpinned(t)
        /\ t \notin pool.notified
        /\ \A u \in Clients \ {t} : pthr[u].pc = "idle" \/ (Waits(u) /\ u \notin pool.notified)

\* C36: every page id in the dirty set refers to a resident frame, and a
\* checkpoint that runs with no page pinned returns only after the last page
\* of its copy of the dirty set: each of these pages is resident when its
\* turn comes and has its bytes on disk afterwards.
DirtyResident == \A p \in pool.dirty : resident(pool, p)

Returns(t) == pthr[t].pc = "checkpoint" /\ pthr'[t].pc = "idle"

C36_CheckpointFlushes ==
    [][ /\ DirtyResident
        /\ \A t \in Clients : Returns(t) =>
              \A p \in pthr[t].todo :
                  resident(pool, p) /\ page_on_disk(pool'.file, p) = pool.data[p] ]_vars

\* The state that breaks C36: no page is pinned, and a checkpoint is about to
\* take from its copy of the dirty set a page that was written, evicted by
\* evict_page and never removed from the set: evict_page raises KeyError.
C36_DirtyEvicted ==
    \E t \in Clients : \E p \in PageIds :
        /\ pthr[t].pc = "checkpoint" /\ p \in pthr[t].todo
        /\ \A q \in PageIds : pool.pins[q] = 0
        /\ ~resident(pool, p) /\ evict_page_raises(pool, p)
        /\ p \in pool.dirty

\* C37: a pin that had to wait for its pinned victim ends in one of two
\* ways: with the eviction-timeout error, the victim being still pinned, or
\* with the frame of the requested page, resident and pinned.  It does not
\* fail because its victim has been evicted meanwhile or because the page
\* it asked for was not loaded.
LeavesWait(t) == pthr[t].pc = "pin_wait" /\ pthr'[t].pc # "pin_wait"

TimedOut(t) == pool.pins[pthr[t].lru] # 0 /\ pthr'[t].pc = "idle"

Pinned(t) ==
    /\ pthr'[t].pc = "held" /\ pthr'[t].page = pthr[t].page
    /\ resident(pool', pthr[t].page)
    /\ pool'.pins[pthr[t].page] >= 1

C37_PinOutcome == [][\A t \in Clients : LeavesWait(t) => TimedOut(t) \/ Pinned(t)]_vars

\* The state that breaks C37: a thread waits in pin for a victim that has
\* been unpinned and that the pin of another thread, which chose the same
\* victim, has evicted; that thread holds the page it asked for, and the
\* waiter's evict_page will raise KeyError.
C37_VictimGone ==
    \E t \in Clients : \E u \in Clients \ {t} :
        /\ pthr[t].pc = "pin_wait" /\ pool.pins[pthr[t].lru] = 0
        /\ ~resident(pool, pthr[t].lru)
        /\ pthr[u].pc = "held" /\ pthr[u].lru = pthr[t].lru
        /\ resident(pool, pthr[u].page)

(***************************************************************************)
(* C38: single merge worker.  At most one merge thread of the table is     *)
(* alive at any time; notify_merge starts no thread while one is alive or  *)
(* after drain_merge has been called; when drain_merge has returned no     *)
(* merge thread is running and none is started afterwards.                 *)
(***************************************************************************)
AliveWorkers == {i \in DOMAIN mt.workers : mt.workers[i] # "dead"}

StartsWorker == Len(mt.workers') > Len(mt.workers)

OneWorker ==
    /\ Cardinality(AliveWorkers) <= 1
    /\ mt.closer = "drained" => AliveWorkers = {}

C38_SingleWorker ==
    /\ []OneWorker
    /\ [][StartsWorker => AliveWorkers = {} /\ mt.closer = "idle"]_vars

\* drain_merge has returned, two merge threads were started in all and both
\* have ended, and every tail RID of the behaviour has been allocated
C38_DrainedAfterTwo ==
    /\ mt.closer = "drained"
    /\ Len(mt.workers) = 2
    /\ AliveWorkers = {}
    /\ ~mt.allow_merge
    /\ TAIL_RID_BEGIN - mt.unused_tail_rid = MaxAllocs

(***************************************************************************)
(* C39: drain_merge terminates under load.  A drain_merge that joins a     *)
(* running merge worker while other threads update the table returns.      *)
(***************************************************************************)
C39_DrainReturns == (mt.closer = "joining") ~> (mt.closer = "drained")

\* drain_merge holds the merge lock and joins the worker, an updater holds
\* the page directory's write lock inside alloc_tail_rid and waits for the
\* merge lock in notify_merge, and the worker waits for the directory's lock
C39_CircularWait ==
    /\ mt.closer = "joining"
    /\ mt.merge_lock = Closer
    /\ \E t \in Updaters : mt.th[t] = "alloc" /\ merge_due(mt.unused_tail_rid)
    /\ AliveWorkers # {}
    /\ ~wp_write_ready(mt.lock)
    /\ ~ENABLED NextDrain

(***************************************************************************)
(* C40: drop_table leaves a usable database.  After drop_table(name) the   *)
(* table is unregistered and its directory is gone; once a table has been  *)
(* dropped, no insert (whose pins evict), checkpoint or close raises, also *)
(* with frames of the dropped table resident or dirty; and a create_table  *)
(* of a dropped name gives a table without records.                        *)
(***************************************************************************)
Unregistered(name) ==
    /\ name \notin DOMAIN cat.tables
    /\ \A q \in cat.fs.dirs \cup cat.fs.files : ~under(split(name, <<>>), q)

C40_DropUsable ==
    /\ dbp.op = "drop_table" => Unregistered(dbp.arg)
    /\ dbp.dropped # {} /\ dbp.op \in {"insert", "checkpoint", "close"} => dbp.error = "none"
    /\ dbp.op = "create_table" /\ dbp.arg \in dbp.dropped /\ dbp.error = "none"
          => dbp.arg \in DOMAIN cat.tables /\ dbp.records[dbp.arg] = 0

\* Database.close has raised FileNotFoundError at the dirty frame of a table
\* that was dropped and is still unregistered, and the database is not closed
C40_CloseRaised ==
    /\ dbp.op = "close"
    /\ dbp.error = "FileNotFoundError"
    /\ cat.up
    /\ dbp.frames # <<>>
    /\ Head(dbp.frames) \in dbp.dirty
    /\ \E name \in dbp.dropped :
          /\ Unregistered(name)
          /\ under(split(name, <<>>), Head(dbp.frames))
====
